---- MODULE Spec2Model ----
(***************************************************************************)
(* Structured-output extraction of the Rick and Morty backend: the parsers *)
(* that turn generated text into compatibility records, evaluation records *)
(* and insight lists, and the service operations that call them.           *)
(*                                                                         *)
(* A JavaScript string is a sequence of characters, each character a       *)
(* string: an ASCII character stands for itself, the backtick and the      *)
(* bullet U+2022 go by the names Backtick and Bullet.  A JavaScript value  *)
(* is a record [t |-> tag, v |-> payload]:                                 *)
(*   undef, null            payload <<>>                                   *)
(*   bool                   payload TRUE / FALSE                           *)
(*   num                    payload the number's lexeme (a string)         *)
(*   str                    payload a string                               *)
(*   arr                    payload the sequence of element values         *)
(*   obj                    payload a sequence of <<key, value>> entries   *)
(***************************************************************************)
EXTENDS Integers, Sequences, FiniteSets, TLC

(***************************************************************************)
(* Characters                                                              *)
(***************************************************************************)
Backtick == "backtick"

Bullet == "bullet"

Digits == {"0", "1", "2", "3", "4", "5", "6", "7", "8", "9"}

LowerLetters ==
  {"a", "b", "c", "d", "e", "f", "g", "h", "i", "j", "k", "l", "m",
   "n", "o", "p", "q", "r", "s", "t", "u", "v", "w", "x", "y", "z"}

UpperLetters ==
  {"A", "B", "C", "D", "E", "F", "G", "H", "I", "J", "K", "L", "M",
   "N", "O", "P", "Q", "R", "S", "T", "U", "V", "W", "X", "Y", "Z"}

\* String.prototype.toLowerCase on one character (ASCII letters).
ToLowerChar(c) ==
  CASE c = "A" -> "a" [] c = "B" -> "b" [] c = "C" -> "c" [] c = "D" -> "d"
    [] c = "E" -> "e" [] c = "F" -> "f" [] c = "G" -> "g" [] c = "H" -> "h"
    [] c = "I" -> "i" [] c = "J" -> "j" [] c = "K" -> "k" [] c = "L" -> "l"
    [] c = "M" -> "m" [] c = "N" -> "n" [] c = "O" -> "o" [] c = "P" -> "p"
    [] c = "Q" -> "q" [] c = "R" -> "r" [] c = "S" -> "s" [] c = "T" -> "t"
    [] c = "U" -> "u" [] c = "V" -> "v" [] c = "W" -> "w" [] c = "X" -> "x"
    [] c = "Y" -> "y" [] c = "Z" -> "z" [] OTHER -> c

\* The regular-expression class \s and the characters String.prototype.trim removes.
IsWs(c) == c \in {" ", "\n", "\t"}

\* The regular-expression class \d.
IsDigit(c) == c \in Digits

\* The regular-expression class \w.
IsWordChar(c) == c \in Digits \cup LowerLetters \cup UpperLetters \cup {"_"}

(***************************************************************************)
(* Strings                                                                 *)
(***************************************************************************)
\* String.prototype.substring(from, to) with 0-based, end-exclusive indices
\* clamped to the string, as JavaScript clamps them.
Substring(s, from, to) ==
  LET f == IF from < 0 THEN 0 ELSE IF from > Len(s) THEN Len(s) ELSE from
      e == IF to < 0 THEN 0 ELSE IF to > Len(s) THEN Len(s) ELSE to
      lo == IF f < e THEN f ELSE e
      hi == IF f < e THEN e ELSE f
  IN SubSeq(s, lo + 1, hi)

\* String.prototype.substring(from) to the end of the string.
SubstringFrom(s, from) == Substring(s, from, Len(s))

\* 1-based index of the first non-whitespace character at or after i, Len(s)+1 if none.
RECURSIVE SkipWs(_, _)
SkipWs(s, i) ==
  IF i > Len(s) THEN Len(s) + 1
  ELSE IF IsWs(s[i]) THEN SkipWs(s, i + 1)
  ELSE i

\* 1-based index of the last non-whitespace character at or before i, 0 if none.
RECURSIVE SkipWsBack(_, _)
SkipWsBack(s, i) ==
  IF i < 1 THEN 0
  ELSE IF IsWs(s[i]) THEN SkipWsBack(s, i - 1)
  ELSE i

\* String.prototype.trim.
Trim(s) == SubSeq(s, SkipWs(s, 1), SkipWsBack(s, Len(s)))

\* Whether pat occurs in s at 1-based position i.
MatchAt(s, i, pat) ==
  /\ i >= 1
  /\ i + Len(pat) - 1 <= Len(s)
  /\ \A k \in 1..Len(pat) : s[i + k - 1] = pat[k]

\* Whether pat occurs in s at position i, ignoring case (the i flag).
MatchAtCI(s, i, pat) ==
  /\ i >= 1
  /\ i + Len(pat) - 1 <= Len(s)
  /\ \A k \in 1..Len(pat) : ToLowerChar(s[i + k - 1]) = ToLowerChar(pat[k])

\* String.prototype.startsWith.
StartsWith(s, pat) == MatchAt(s, 1, pat)

\* String.prototype.toLowerCase.
ToLowerCase(s) == [k \in 1..Len(s) |-> ToLowerChar(s[k])]

\* String.prototype.includes.
Includes(s, pat) == \E i \in 1..(Len(s) + 1) : MatchAt(s, i, pat)

\* Concatenation of a sequence of strings.
RECURSIVE Concat(_)
Concat(ss) == IF ss = <<>> THEN <<>> ELSE Head(ss) \o Concat(Tail(ss))

(***************************************************************************)
(* JavaScript values                                                       *)
(***************************************************************************)
JUndef == [t |-> "undef", v |-> <<>>]
JNull == [t |-> "null", v |-> <<>>]
JBool(b) == [t |-> "bool", v |-> b]
JNum(lexeme) == [t |-> "num", v |-> lexeme]
JStr(s) == [t |-> "str", v |-> s]
JArr(elems) == [t |-> "arr", v |-> elems]
JObj(entries) == [t |-> "obj", v |-> entries]

\* Whether a number lexeme denotes zero (only its digits before any exponent count).
RECURSIVE IsZeroLexeme(_)
IsZeroLexeme(lex) ==
  IF lex = <<>> THEN TRUE
  ELSE IF Head(lex) \in {"e", "E"} THEN TRUE
  ELSE IF Head(lex) \in {"0", "-", "."} THEN IsZeroLexeme(Tail(lex))
  ELSE FALSE

\* JavaScript truthiness (ToBoolean), as used by !x, x && y and x || y.
Truthy(x) ==
  CASE x.t = "undef" -> FALSE
    [] x.t = "null" -> FALSE
    [] x.t = "bool" -> x.v
    [] x.t = "num" -> ~IsZeroLexeme(x.v)
    [] x.t = "str" -> Len(x.v) > 0
    [] OTHER -> TRUE

\* Array.isArray.
IsArray(x) == x.t = "arr"

\* Whether entries holds key.
HasKey(entries, key) == \E k \in 1..Len(entries) : entries[k][1] = key

\* The value stored under key (entries hold each key once).
Lookup(entries, key) ==
  entries[CHOOSE k \in 1..Len(entries) : entries[k][1] = key][2]

\* A property read x.key or x[key] on a value that is neither null nor
\* undefined: own properties of objects, undefined for everything else the
\* parsers read (primitives and arrays hold none of the names they ask for).
GetProp(x, key) ==
  IF x.t = "obj" /\ HasKey(x.v, key) THEN Lookup(x.v, key) ELSE JUndef

\* entries with key set to val: replaced in place, or appended when new
\* (the property order of a JavaScript object).
SetEntry(entries, key, val) ==
  IF HasKey(entries, key)
  THEN [k \in 1..Len(entries) |->
          IF entries[k][1] = key THEN <<key, val>> ELSE entries[k]]
  ELSE Append(entries, <<key, val>>)

(***************************************************************************)
(* JSON.parse                                                              *)
(***************************************************************************)
ParseFail == [ok |-> FALSE, val |-> JNull, pos |-> 0]

ParseOk(val, pos) == [ok |-> TRUE, val |-> val, pos |-> pos]

\* The character at 1-based position i, or the empty string past the end.
CharAt(s, i) == IF i >= 1 /\ i <= Len(s) THEN s[i] ELSE ""

\* 1-based index of the first non-digit at or after i.
RECURSIVE SkipDigits(_, _)
SkipDigits(s, i) ==
  IF i <= Len(s) /\ IsDigit(s[i]) THEN SkipDigits(s, i + 1) ELSE i

\* A JSON number at position i: -? (0 | [1-9] digit*) (. digit+)? ([eE] [+-]? digit+)?
ParseNumber(s, i) ==
  LET a == IF CharAt(s, i) = "-" THEN i + 1 ELSE i
      b == IF CharAt(s, a) = "0" THEN a + 1 ELSE SkipDigits(s, a)
      fracEnd == SkipDigits(s, b + 1)
      hasFrac == CharAt(s, b) = "."
      c == IF hasFrac THEN fracEnd ELSE b
      hasExp == CharAt(s, c) \in {"e", "E"}
      d == IF CharAt(s, c + 1) \in {"+", "-"} THEN c + 2 ELSE c + 1
      expEnd == SkipDigits(s, d)
      e == IF hasExp THEN expEnd ELSE c
  IN IF b = a THEN ParseFail
     ELSE IF hasFrac /\ fracEnd = b + 1 THEN ParseFail
     ELSE IF hasExp /\ expEnd = d THEN ParseFail
     ELSE ParseOk(JNum(SubSeq(s, i, e - 1)), e)

\* The characters of a JSON string literal whose opening quote precedes i, up
\* to its closing quote; acc holds the decoded characters so far.  A raw
\* control character or an unknown escape is a syntax error.
RECURSIVE ParseStringBody(_, _, _)
ParseStringBody(s, i, acc) ==
  IF i > Len(s) THEN ParseFail
  ELSE IF s[i] = "\"" THEN ParseOk(JStr(acc), i + 1)
  ELSE IF s[i] \in {"\n", "\t"} THEN ParseFail
  ELSE IF s[i] = "\\" THEN
    LET n == CharAt(s, i + 1)
    IN IF n \in {"\"", "\\", "/"} THEN ParseStringBody(s, i + 2, Append(acc, n))
       ELSE IF n = "n" THEN ParseStringBody(s, i + 2, Append(acc, "\n"))
       ELSE IF n = "t" THEN ParseStringBody(s, i + 2, Append(acc, "\t"))
       ELSE ParseFail
  ELSE ParseStringBody(s, i + 1, Append(acc, s[i]))

RECURSIVE ParseValue(_, _)
RECURSIVE ParseMembers(_, _, _)
RECURSIVE ParseElements(_, _, _)

\* A JSON value starting exactly at position i.
ParseValue(s, i) ==
  LET c == CharAt(s, i)
  IN CASE c = "{" ->
            LET j == SkipWs(s, i + 1)
            IN IF CharAt(s, j) = "}" THEN ParseOk(JObj(<<>>), j + 1)
               ELSE ParseMembers(s, j, <<>>)
       [] c = "[" ->
            LET j == SkipWs(s, i + 1)
            IN IF CharAt(s, j) = "]" THEN ParseOk(JArr(<<>>), j + 1)
               ELSE ParseElements(s, j, <<>>)
       [] c = "\"" -> ParseStringBody(s, i + 1, <<>>)
       [] c = "-" \/ IsDigit(c) -> ParseNumber(s, i)
       [] MatchAt(s, i, <<"t", "r", "u", "e">>) -> ParseOk(JBool(TRUE), i + 4)
       [] MatchAt(s, i, <<"f", "a", "l", "s", "e">>) -> ParseOk(JBool(FALSE), i + 5)
       [] MatchAt(s, i, <<"n", "u", "l", "l">>) -> ParseOk(JNull, i + 4)
       [] OTHER -> ParseFail

\* The members of an object from position i (a key is expected there); acc
\* holds the entries so far.  A repeated key keeps its last value.
ParseMembers(s, i, acc) ==
  IF CharAt(s, i) # "\"" THEN ParseFail
  ELSE
    LET key == ParseStringBody(s, i + 1, <<>>)
        colon == SkipWs(s, key.pos)
        val == ParseValue(s, SkipWs(s, colon + 1))
        next == SkipWs(s, val.pos)
        entries == SetEntry(acc, key.val.v, val.val)
    IN IF ~key.ok THEN ParseFail
       ELSE IF CharAt(s, colon) # ":" THEN ParseFail
       ELSE IF ~val.ok THEN ParseFail
       ELSE IF CharAt(s, next) = "}" THEN ParseOk(JObj(entries), next + 1)
       ELSE IF CharAt(s, next) = "," THEN ParseMembers(s, SkipWs(s, next + 1), entries)
       ELSE ParseFail

\* The elements of an array from position i; acc holds the elements so far.
ParseElements(s, i, acc) ==
  LET val == ParseValue(s, i)
      next == SkipWs(s, val.pos)
      elems == Append(acc, val.val)
  IN IF ~val.ok THEN ParseFail
     ELSE IF CharAt(s, next) = "]" THEN ParseOk(JArr(elems), next + 1)
     ELSE IF CharAt(s, next) = "," THEN ParseElements(s, SkipWs(s, next + 1), elems)
     ELSE ParseFail

\* JSON.parse(s): ok is FALSE where JSON.parse throws a SyntaxError.
JSONParse(s) ==
  LET r == ParseValue(s, SkipWs(s, 1))
  IN IF r.ok /\ SkipWs(s, r.pos) = Len(s) + 1
     THEN [ok |-> TRUE, val |-> r.val]
     ELSE [ok |-> FALSE, val |-> JNull]

(***************************************************************************)
(* Regular-expression helpers.  The texts of the model hold no emoji: the  *)
(* emoji alternatives of the source's patterns match no character of a     *)
(* text and are left out.                                                  *)
(***************************************************************************)
\* The least i in from..to with P(i), or 0.
FirstWhere(P(_), from, to) ==
  LET hits == {i \in from..to : P(i)}
  IN IF hits = {} THEN 0 ELSE CHOOSE i \in hits : \A j \in hits : i <= j

\* word1 \s+ word2 at position i, ignoring case: the position after it, or 0.
TwoWordsAt(s, i, word1, word2) ==
  LET gap == i + Len(word1)
      w == SkipWs(s, gap)
  IN IF MatchAtCI(s, i, word1) /\ IsWs(CharAt(s, gap)) /\ MatchAtCI(s, w, word2)
     THEN w + Len(word2)
     ELSE 0

\* word at position i, ignoring case: the position after it, or 0.
WordAt(s, i, word) == IF MatchAtCI(s, i, word) THEN i + Len(word) ELSE 0

\* The position after the longest run of [:\s]* starting at i.
RECURSIVE SkipColonWs(_, _)
SkipColonWs(s, i) ==
  IF i <= Len(s) /\ (s[i] = ":" \/ IsWs(s[i])) THEN SkipColonWs(s, i + 1) ELSE i

\* \d+\.?\s* followed by word at position i, ignoring case.
NumberedWordAt(s, i, word) ==
  LET d == SkipDigits(s, i)
      e == IF CharAt(s, d) = "." THEN d + 1 ELSE d
  IN d > i /\ MatchAtCI(s, SkipWs(s, e), word)

K_team == <<"t", "e", "a", "m">>
K_work == <<"w", "o", "r", "k">>
K_conflict == <<"c", "o", "n", "f", "l", "i", "c", "t">>
K_fight == <<"f", "i", "g", "h", "t">>
K_breaks == <<"b", "r", "e", "a", "k", "s">>
K_first == <<"f", "i", "r", "s", "t">>
K_who == <<"w", "h", "o">>

NoMatch == [found |-> FALSE, cap |-> <<>>]

\* pos when it is a position, else 0: SkipColonWs applied to a keyword end.
AfterColonWs(s, kwEnd) == IF kwEnd = 0 THEN 0 ELSE SkipColonWs(s, kwEnd)

\* The match of  keyword separators (.*?) (?= terminator)  with the s flag:
\* the leftmost keyword decides it; group 1 runs from the end of the
\* separators to the first position where the lookahead holds.  CapStart(i)
\* is the position where group 1 starts for a keyword at i (0 if no keyword
\* matches at i), Term(q) the lookahead at q.
SectionMatch(s, CapStart(_), Term(_)) ==
  LET k == FirstWhere(LAMBDA i : CapStart(i) # 0, 1, Len(s))
      cs == CapStart(k)
      q == FirstWhere(Term, cs, Len(s))
  IN IF k = 0 THEN NoMatch
     ELSE IF q = 0 THEN NoMatch
     ELSE [found |-> TRUE, cap |-> SubSeq(s, cs, q - 1)]

\* The match of  keyword separators (.*?) $  with the s flag and no m flag:
\* group 1 runs to the end of the text.
TailMatch(s, CapStart(_)) ==
  LET k == FirstWhere(LAMBDA i : CapStart(i) # 0, 1, Len(s))
  IN IF k = 0 THEN NoMatch
     ELSE [found |-> TRUE, cap |-> SubSeq(s, CapStart(k), Len(s))]

(***************************************************************************)
(* String.prototype.split on a regular expression                          *)
(***************************************************************************)
\* The pieces of s from piece start p, scanning from q; sep[i] is the
\* position after a separator that matches at i, or 0; k is the first
\* position at or after q where a separator matches, or 0.
RECURSIVE SplitFrom(_, _, _, _)
SplitAt(s, sep, p, k) ==
  IF k = 0 THEN <<SubSeq(s, p, Len(s))>>
  ELSE <<SubSeq(s, p, k - 1)>> \o SplitFrom(s, sep, sep[k], sep[k])

SplitFrom(s, sep, p, q) ==
  SplitAt(s, sep, p, FirstWhere(LAMBDA i : sep[i] # 0, q, Len(s)))

\* s.split(re), SepEnd(i) being the position after a match of re at i, or 0.
Split(s, SepEnd(_)) == SplitFrom(s, [i \in 1..Len(s) |-> SepEnd(i)], 1, 1)

\* The elements of seq that satisfy Keep, in order (Array.prototype.filter).
Filter(seq, Keep(_)) ==
  LET kept == {i \in 1..Len(seq) : Keep(seq[i])}
      nth(n) == CHOOSE i \in kept : Cardinality({j \in kept : j < i}) = n - 1
  IN [n \in 1..Cardinality(kept) |-> seq[nth(n)]]

\* The position after the longest run of [.!?] starting at i.
RECURSIVE SkipSentenceEnd(_, _)
SkipSentenceEnd(s, i) ==
  IF i <= Len(s) /\ s[i] \in {".", "!", "?"} THEN SkipSentenceEnd(s, i + 1) ELSE i

\* /[.!?]+/ at i.
SentenceSepEnd(s, i) ==
  IF s[i] \in {".", "!", "?"} THEN SkipSentenceEnd(s, i) ELSE 0

\* /\n\s*[-<bullet>*]\s+|\n\s*\d+\.\s+|\n\s*[<bullet>]\s+/ at i.
BulletSepEnd(s, i) ==
  LET b == SkipWs(s, i + 1)
      d == SkipDigits(s, b)
  IN IF s[i] # "\n" THEN 0
     ELSE IF CharAt(s, b) \in {"-", Bullet, "*"} /\ IsWs(CharAt(s, b + 1)) THEN SkipWs(s, b + 1)
     ELSE IF d > b /\ CharAt(s, d) = "." /\ IsWs(CharAt(s, d + 1)) THEN SkipWs(s, d + 1)
     ELSE 0

\* /\n\s*\n/ at i: from a newline through the last newline of the whitespace
\* run that follows it.
BlankLineSepEnd(s, i) ==
  LET w == SkipWs(s, i + 1)
      nl == {j \in (i + 1)..(w - 1) : s[j] = "\n"}
  IN IF s[i] # "\n" \/ nl = {} THEN 0
     ELSE (CHOOSE j \in nl : \A k \in nl : k <= j) + 1

(***************************************************************************)
(* parseCompatibilityAnalysis, list-valued                                 *)
(***************************************************************************)
\* The shortest item parseTextToArray keeps is one character longer.
MinItemLength == 10

StopWords ==
  {<<"c", "o", "n", "f", "l", "i", "c", "t">>, <<"a", "n", "d">>, <<"o", "r">>, <<"b", "u", "t">>,
   <<"h", "o", "w", "e", "v", "e", "r">>, <<"t", "h", "e", "r", "e", "f", "o", "r", "e">>, <<"t", "h", "u", "s">>, <<"s", "o">>,
   <<"a", "l", "s", "o">>, <<"f", "u", "r", "t", "h", "e", "r", "m", "o", "r", "e">>, <<"m", "o", "r", "e", "o", "v", "e", "r">>,
   <<"i", "n", " ", "a", "d", "d", "i", "t", "i", "o", "n">>, <<"a", "d", "d", "i", "t", "i", "o", "n", "a", "l", "l", "y">>}

\* /^(team\s+work|conflict|breaks\s+first|and|or|...|additionally)$/i
IsStopItem(item) ==
  \/ TwoWordsAt(item, 1, K_team, K_work) = Len(item) + 1
  \/ TwoWordsAt(item, 1, K_breaks, K_first) = Len(item) + 1
  \/ ToLowerCase(item) \in StopWords

\* Array.prototype.map(item => item.trim()).
TrimAll(seq) == [k \in 1..Len(seq) |-> Trim(seq[k])]

\* The trimmed pieces between bullet markers, without the short ones and the
\* stoplist words.
BulletItems(text) ==
  Filter(TrimAll(Split(text, LAMBDA i : BulletSepEnd(text, i))),
         LAMBDA item : Len(item) > MinItemLength /\ ~IsStopItem(item))

\* The trimmed sentences, without the short ones.
Sentences(text) ==
  Filter(TrimAll(Split(text, LAMBDA i : SentenceSepEnd(text, i))),
         LAMBDA x : Len(x) > MinItemLength)

\* The bullet items when there are two or more, else the sentences.
ItemsOrSentences(items, text) == IF Len(items) <= 1 THEN Sentences(text) ELSE items

\* parseTextToArray.
ParseTextToArray(text) ==
  IF text = <<>> THEN <<>> ELSE ItemsOrSentences(BulletItems(text), text)

Fence == <<Backtick, Backtick, Backtick>>
FenceJson == <<Backtick, Backtick, Backtick, "j", "s", "o", "n">>

\* s.replace(/<fence>json\s*/i, ''): the first match, wherever it is, is removed.
RemoveFirstJsonFence(s) ==
  LET k == FirstWhere(LAMBDA i : MatchAtCI(s, i, FenceJson), 1, Len(s))
  IN IF k = 0 THEN s
     ELSE SubSeq(s, 1, k - 1) \o SubSeq(s, SkipWs(s, k + Len(FenceJson)), Len(s))

\* s.replace(/<fence>\s*/g, '') from position i on: every match is removed;
\* k is the first position at or after i where a fence starts, or 0.
RECURSIVE RemoveAllFences(_, _)
RemoveFenceAt(s, i, k) ==
  IF k = 0 THEN SubSeq(s, i, Len(s))
  ELSE SubSeq(s, i, k - 1) \o RemoveAllFences(s, SkipWs(s, k + Len(Fence)))

RemoveAllFences(s, i) ==
  RemoveFenceAt(s, i, FirstWhere(LAMBDA j : MatchAt(s, j, Fence), i, Len(s)))

\* The text handed to JSON.parse: trimmed, and when it starts with a fence,
\* with the markdown fences removed and trimmed again.
CleanText(text) ==
  LET trimmed == Trim(text)
  IN IF StartsWith(trimmed, Fence)
     THEN Trim(RemoveAllFences(RemoveFirstJsonFence(trimmed), 1))
     ELSE trimmed

P_teamWork == <<"t", "e", "a", "m", "W", "o", "r", "k">>
P_conflicts == <<"c", "o", "n", "f", "l", "i", "c", "t", "s">>
P_breaksFirst == <<"b", "r", "e", "a", "k", "s", "F", "i", "r", "s", "t">>

\* Array.prototype.map over strings into JavaScript string values.
StrValues(seq) == [k \in 1..Len(seq) |-> JStr(seq[k])]

\* teamWorkMatch: "TEAM WORK" up to a numbered CONFLICT header, a 2, CONFLICT or BREAKS.
TeamWorkMatch(s) ==
  SectionMatch(s,
    LAMBDA i : AfterColonWs(s, TwoWordsAt(s, i, K_team, K_work)),
    LAMBDA q : \/ NumberedWordAt(s, q, K_conflict)
               \/ CharAt(s, q) = "2"
               \/ MatchAtCI(s, q, K_conflict)
               \/ MatchAtCI(s, q, K_breaks))

\* conflictMatch: CONFLICT or FIGHT up to a numbered BREAKS header, a 3, BREAKS or Who.
ConflictMatch(s) ==
  SectionMatch(s,
    LAMBDA i : AfterColonWs(s, IF MatchAtCI(s, i, K_conflict) THEN i + Len(K_conflict)
                                ELSE WordAt(s, i, K_fight)),
    LAMBDA q : \/ NumberedWordAt(s, q, K_breaks)
               \/ CharAt(s, q) = "3"
               \/ MatchAtCI(s, q, K_breaks)
               \/ MatchAtCI(s, q, K_who))

\* breaksMatch: "BREAKS FIRST" or "Who breaks" up to the end of the text.
BreaksMatch(s) ==
  TailMatch(s,
    LAMBDA i : AfterColonWs(s, IF TwoWordsAt(s, i, K_breaks, K_first) # 0
                                THEN TwoWordsAt(s, i, K_breaks, K_first)
                                ELSE TwoWordsAt(s, i, K_who, K_breaks)))

EmptyResult == [teamWork |-> <<>>, conflicts |-> <<>>, breaksFirst |-> <<>>]

NoSource == [teamWork |-> "none", conflicts |-> "none", breaksFirst |-> "none"]

\* Whether every list of a compatibility result is empty.
AllEmpty(result) ==
  Len(result.teamWork) = 0 /\ Len(result.conflicts) = 0 /\ Len(result.breaksFirst) = 0

\* Whether the try block throws: JSON.parse on a text that is no JSON, or
\* the property read on a parsed null.
TryThrows(parse) == ~parse.ok \/ parse.val.t = "null"

\* parsed[name] when it is truthy and an array, else the empty list the
\* record starts with.
JsonField(parsed, name) ==
  IF Truthy(GetProp(parsed, name)) /\ IsArray(GetProp(parsed, name))
  THEN GetProp(parsed, name).v
  ELSE <<>>

\* The record after the three assignments of the try block.
JsonFields(parsed) ==
  [teamWork |-> JsonField(parsed, P_teamWork),
   conflicts |-> JsonField(parsed, P_conflicts),
   breaksFirst |-> JsonField(parsed, P_breaksFirst)]

\* The try block returns the record when one of its lists is non-empty.
TryReturns(result) ==
  [threw |-> FALSE, raised |-> FALSE, returned |-> ~AllEmpty(result), result |-> result]

\* The try block without its catch block: an error of JSON.parse, or of a
\* property read on null, leaves the function.
TryBlockUncaught(parse) ==
  [threw |-> TryThrows(parse), raised |-> TryThrows(parse), returned |-> FALSE,
   result |-> EmptyResult]

\* The try block on the outcome of JSON.parse: result is what it leaves in
\* the record, returned whether the function returns there.  When it throws
\* the record stays as it was, and the catch block swallows the error
\* (threw), so none leaves the function (raised).
TryBlock(parse) ==
  IF TryThrows(parse)
  THEN [threw |-> TRUE, raised |-> FALSE, returned |-> FALSE, result |-> EmptyResult]
  ELSE TryReturns(JsonFields(parse.val))

\* The JSON tier: the try block on the cleaned text.
JsonTier(analysisText) == TryBlock(JSONParse(CleanText(analysisText)))

\* The labeled-section tier: each section pattern that matches fills its own
\* list; source tells which ones matched.
LabeledOf(tw, cf, br) ==
  [result |-> [teamWork |-> IF tw.found THEN StrValues(ParseTextToArray(tw.cap)) ELSE <<>>,
               conflicts |-> IF cf.found THEN StrValues(ParseTextToArray(cf.cap)) ELSE <<>>,
               breaksFirst |-> IF br.found THEN StrValues(ParseTextToArray(br.cap)) ELSE <<>>],
   source |-> [teamWork |-> IF tw.found THEN "labeled" ELSE "none",
               conflicts |-> IF cf.found THEN "labeled" ELSE "none",
               breaksFirst |-> IF br.found THEN "labeled" ELSE "none"]]

LabeledTier(analysisText) ==
  LabeledOf(TeamWorkMatch(analysisText), ConflictMatch(analysisText),
            BreaksMatch(analysisText))

\* analysisText.split(/\n\s*\n/).
BlankLineSections(analysisText) ==
  Split(analysisText, LAMBDA i : BlankLineSepEnd(analysisText, i))

\* The paragraph tier: the first three blank-line-separated sections.
ParagraphTier(sections) ==
  [teamWork |-> StrValues(ParseTextToArray(sections[1])),
   conflicts |-> StrValues(ParseTextToArray(sections[2])),
   breaksFirst |-> StrValues(ParseTextToArray(sections[3]))]

\* Math.round(length / 3).
ThirdRounded(length) == (2 * length + 3) \div 6

\* Math.floor(length / 3).
Third(length) == length \div 3

\* The three character ranges of the positional fallback.
PositionalParts(analysisText) ==
  LET third == Third(Len(analysisText))
  IN <<Substring(analysisText, 0, third),
       Substring(analysisText, third, 2 * third),
       SubstringFrom(analysisText, 2 * third)>>

\* The positional tier: each range goes through parseTextToArray.
PositionalTier(parts) ==
  [teamWork |-> StrValues(ParseTextToArray(parts[1])),
   conflicts |-> StrValues(ParseTextToArray(parts[2])),
   breaksFirst |-> StrValues(ParseTextToArray(parts[3]))]

\* All three fields attributed to one tier.
AllFrom(tier) == [teamWork |-> tier, conflicts |-> tier, breaksFirst |-> tier]

\* What parseCompatibilityAnalysis hands back, and how it got there:
\* consulted, the tiers run in order; source, the tier whose assignment each
\* field last received; parts, the ranges of the positional tier when it ran.
\* The final fallback.
FromPositional(parts) ==
  [raised |-> FALSE, result |-> PositionalTier(parts), source |-> AllFrom("positional"),
   consulted |-> <<"json", "labeled", "paragraph", "positional">>, parts |-> parts]

\* The lists are still empty: three sections, or else the final fallback.
FromSections(analysisText, sections) ==
  IF Len(sections) >= 3
  THEN [raised |-> FALSE, result |-> ParagraphTier(sections),
        source |-> AllFrom("paragraph"),
        consulted |-> <<"json", "labeled", "paragraph">>, parts |-> <<>>]
  ELSE FromPositional(PositionalParts(analysisText))

\* After the section matches.
FromLabeled(analysisText, labeled) ==
  IF ~AllEmpty(labeled.result)
  THEN [raised |-> FALSE, result |-> labeled.result, source |-> labeled.source,
        consulted |-> <<"json", "labeled">>, parts |-> <<>>]
  ELSE FromSections(analysisText, BlankLineSections(analysisText))

\* The tier that filled each list of the JSON tier's record.
JsonSource(result) ==
  [teamWork |-> IF Len(result.teamWork) > 0 THEN "json" ELSE "none",
   conflicts |-> IF Len(result.conflicts) > 0 THEN "json" ELSE "none",
   breaksFirst |-> IF Len(result.breaksFirst) > 0 THEN "json" ELSE "none"]

\* After the JSON tier.
FromJson(analysisText, json) ==
  IF json.raised
  THEN [raised |-> TRUE, result |-> EmptyResult, source |-> NoSource,
        consulted |-> <<"json">>, parts |-> <<>>]
  ELSE IF json.returned
  THEN [raised |-> FALSE, result |-> json.result, source |-> JsonSource(json.result),
        consulted |-> <<"json">>, parts |-> <<>>]
  ELSE FromLabeled(analysisText, LabeledTier(analysisText))

\* parseCompatibilityAnalysis (list-valued).
ParseCompatibilityAnalysis(analysisText) == FromJson(analysisText, JsonTier(analysisText))

(***************************************************************************)
(* parseCompatibilityAnalysis, string-valued                               *)
(***************************************************************************)
K_what == <<"w", "h", "a", "t">>
K_break == <<"b", "r", "e", "a", "k">>

\* The position after the longest run of [\s\-:]* starting at i.
RECURSIVE SkipSeparators(_, _)
SkipSeparators(s, i) ==
  IF i <= Len(s) /\ (s[i] \in {"-", ":"} \/ IsWs(s[i])) THEN SkipSeparators(s, i + 1) ELSE i

\* Pattern 1, teamWork: as TeamWorkMatch, FIGHT being a terminator too.
TeamWorkPattern1(s) ==
  SectionMatch(s,
    LAMBDA i : AfterColonWs(s, TwoWordsAt(s, i, K_team, K_work)),
    LAMBDA q : \/ NumberedWordAt(s, q, K_conflict)
               \/ NumberedWordAt(s, q, K_fight)
               \/ CharAt(s, q) = "2"
               \/ MatchAtCI(s, q, K_conflict)
               \/ MatchAtCI(s, q, K_fight)
               \/ MatchAtCI(s, q, K_breaks))

\* Pattern 1, conflicts.  The alternative "What they'd fight" ends where the
\* "fight" inside it ends, so it changes no group.
ConflictPattern1(s) ==
  SectionMatch(s,
    LAMBDA i : AfterColonWs(s, IF MatchAtCI(s, i, K_conflict) THEN i + Len(K_conflict)
                                ELSE WordAt(s, i, K_fight)),
    LAMBDA q : \/ NumberedWordAt(s, q, K_breaks)
               \/ NumberedWordAt(s, q, K_who)
               \/ CharAt(s, q) = "3"
               \/ MatchAtCI(s, q, K_breaks)
               \/ MatchAtCI(s, q, K_who))

\* Pattern 1, breaksFirst.
BreaksPattern1(s) == BreaksMatch(s)

\* digit [\s\-:]* word [\s\-:]* at i, ignoring case: the position after it, or 0.
MarkedWordAt(s, i, digit, word) ==
  LET w == SkipSeparators(s, i + 1)
  IN IF CharAt(s, i) = digit /\ MatchAtCI(s, w, word)
     THEN SkipSeparators(s, w + Len(word))
     ELSE 0

\* pos advanced over an optional word and the separators after it.
OptionalWord(s, pos, word) ==
  IF pos # 0 /\ MatchAtCI(s, pos, word) THEN SkipSeparators(s, pos + Len(word)) ELSE pos

\* Pattern 2, teamWork: 1, TEAM, an optional WORK, up to 2, CONFLICT or FIGHT.
TeamWorkPattern2(s) ==
  SectionMatch(s,
    LAMBDA i : OptionalWord(s, MarkedWordAt(s, i, "1", K_team), K_work),
    LAMBDA q : \/ CharAt(s, q) = "2"
               \/ MatchAtCI(s, q, K_conflict)
               \/ MatchAtCI(s, q, K_fight))

\* Pattern 2, conflicts: 2, CONFLICT, FIGHT or What, up to 3, BREAKS or Who.
ConflictPattern2(s) ==
  SectionMatch(s,
    LAMBDA i : IF MarkedWordAt(s, i, "2", K_conflict) # 0
               THEN MarkedWordAt(s, i, "2", K_conflict)
               ELSE IF MarkedWordAt(s, i, "2", K_fight) # 0
               THEN MarkedWordAt(s, i, "2", K_fight)
               ELSE MarkedWordAt(s, i, "2", K_what),
    LAMBDA q : \/ CharAt(s, q) = "3"
               \/ MatchAtCI(s, q, K_breaks)
               \/ MatchAtCI(s, q, K_who))

\* Pattern 2, breaksFirst: 3, BREAKS or Who, an optional FIRST, to the end.
BreaksPattern2(s) ==
  TailMatch(s,
    LAMBDA i : OptionalWord(s, IF MarkedWordAt(s, i, "3", K_breaks) # 0
                               THEN MarkedWordAt(s, i, "3", K_breaks)
                               ELSE MarkedWordAt(s, i, "3", K_who), K_first))

Rule == <<"-", "-", "-">>
Stars == <<"*", "*", "*">>

\* /\n\s*\n|---|\*\*\*/ at i.
SectionSepEnd(s, i) ==
  IF BlankLineSepEnd(s, i) # 0 THEN BlankLineSepEnd(s, i)
  ELSE IF MatchAt(s, i, Rule) THEN i + Len(Rule)
  ELSE IF MatchAt(s, i, Stars) THEN i + Len(Stars)
  ELSE 0

\* 1-based index of the first \w character at or after i, Len(s)+1 if none.
RECURSIVE SkipNonWord(_, _)
SkipNonWord(s, i) ==
  IF i <= Len(s) /\ ~IsWordChar(s[i]) THEN SkipNonWord(s, i + 1) ELSE i

\* section.replace(/^[^\w]*/, '').trim().
CleanSection(section) == Trim(SubSeq(section, SkipNonWord(section, 1), Len(section)))

EmptyStrings == [teamWork |-> <<>>, conflicts |-> <<>>, breaksFirst |-> <<>>]

\* Whether some field of a string-valued record is the empty string.
SomeEmpty(result) ==
  Len(result.teamWork) = 0 \/ Len(result.conflicts) = 0 \/ Len(result.breaksFirst) = 0

\* The pattern loop: the first pattern whose three expressions all match
\* fills the three fields with the trimmed groups.
PatternTier(analysisText) ==
  LET t1 == TeamWorkPattern1(analysisText)
      c1 == ConflictPattern1(analysisText)
      b1 == BreaksPattern1(analysisText)
      t2 == TeamWorkPattern2(analysisText)
      c2 == ConflictPattern2(analysisText)
      b2 == BreaksPattern2(analysisText)
  IN IF t1.found /\ c1.found /\ b1.found
     THEN [matched |-> TRUE,
           result |-> [teamWork |-> Trim(t1.cap), conflicts |-> Trim(c1.cap),
                       breaksFirst |-> Trim(b1.cap)]]
     ELSE IF t2.found /\ c2.found /\ b2.found
     THEN [matched |-> TRUE,
           result |-> [teamWork |-> Trim(t2.cap), conflicts |-> Trim(c2.cap),
                       breaksFirst |-> Trim(b2.cap)]]
     ELSE [matched |-> FALSE, result |-> EmptyStrings]

\* The state after a section went to a field.
Put(st, section, field) ==
  [result |-> [st.result EXCEPT ![field] = CleanSection(section)],
   source |-> [st.source EXCEPT ![field] = "paragraph"]]

\* The section, lower being its lower-case form, goes to the first
\* still-empty field whose keywords it includes.
AssignLower(st, section, lower) ==
  IF Len(st.result.teamWork) = 0 /\ (Includes(lower, K_team) \/ Includes(lower, K_work))
  THEN Put(st, section, "teamWork")
  ELSE IF Len(st.result.conflicts) = 0
          /\ (Includes(lower, K_conflict) \/ Includes(lower, K_fight))
  THEN Put(st, section, "conflicts")
  ELSE IF Len(st.result.breaksFirst) = 0
          /\ (Includes(lower, K_break) \/ Includes(lower, K_first))
  THEN Put(st, section, "breaksFirst")
  ELSE st

\* One step of sections.forEach.  st holds result and source.
AssignByKeyword(st, section) == AssignLower(st, section, ToLowerCase(section))

\* sections.forEach from section k on.
RECURSIVE AssignAllByKeyword(_, _, _)
AssignAllByKeyword(st, sections, k) ==
  IF k > Len(sections) THEN st
  ELSE AssignAllByKeyword(AssignByKeyword(st, sections[k]), sections, k + 1)

\* A still-empty field takes the section at its position when that section is non-empty.
AssignByPosition(st, sections, field, k) ==
  IF Len(st.result[field]) = 0 /\ Len(sections[k]) > 0
  THEN Put(st, sections[k], field)
  ELSE st

\* The section tier: runs when a field is empty and the text has three sections.
SectionTier(st, sections) ==
  AssignByPosition(
    AssignByPosition(
      AssignByPosition(AssignAllByKeyword(st, sections, 1), sections, "teamWork", 1),
      sections, "conflicts", 2),
    sections, "breaksFirst", 3)

\* The final fallback: each still-empty field takes its trimmed third.
ThirdsTier(st, parts) ==
  LET fill(field, k) == IF Len(st.result[field]) = 0 THEN Trim(parts[k]) ELSE st.result[field]
      from(field) == IF Len(st.result[field]) = 0 THEN "positional" ELSE st.source[field]
  IN [result |-> [teamWork |-> fill("teamWork", 1), conflicts |-> fill("conflicts", 2),
                  breaksFirst |-> fill("breaksFirst", 3)],
      source |-> [teamWork |-> from("teamWork"), conflicts |-> from("conflicts"),
                  breaksFirst |-> from("breaksFirst")]]

\* What the string-valued parseCompatibilityAnalysis hands back: result, per
\* field the tier whose assignment it last received, the tiers run in order
\* (the pattern loop counts as the labeled tier, the section split as the
\* paragraph tier), and the ranges of the final fallback when it ran.
Outcome(st, consulted, parts) ==
  [result |-> st.result, source |-> st.source, consulted |-> consulted, parts |-> parts]

\* The final fallback on the three ranges.
FromThirds(st, parts) ==
  Outcome(ThirdsTier(st, parts), <<"labeled", "paragraph", "positional">>, parts)

\* After the section split: the final fallback runs when a field is still empty.
FromSectionTier(analysisText, st) ==
  IF SomeEmpty(st.result)
  THEN FromThirds(st, PositionalParts(analysisText))
  ELSE Outcome(st, <<"labeled", "paragraph">>, <<>>)

\* analysisText.split(/\n\s*\n|---|\*\*\*/).
SplitSections(analysisText) ==
  Split(analysisText, LAMBDA i : SectionSepEnd(analysisText, i))

\* The section split assigns only when it yields three sections.
WithSections(st, sections) == IF Len(sections) >= 3 THEN SectionTier(st, sections) ELSE st

\* After the pattern loop: the section split runs when a field is empty.
FromPatterns(analysisText, st) ==
  IF SomeEmpty(st.result)
  THEN FromSectionTier(analysisText, WithSections(st, SplitSections(analysisText)))
  ELSE Outcome(st, <<"labeled">>, <<>>)

\* The record and its sources after the pattern loop.
PatternState(pattern) ==
  [result |-> pattern.result,
   source |-> IF pattern.matched THEN AllFrom("labeled") ELSE NoSource]

\* parseCompatibilityAnalysis (string-valued).
ParseCompatibilityAnalysisText(analysisText) ==
  FromPatterns(analysisText, PatternState(PatternTier(analysisText)))

(***************************************************************************)
(* Evaluation records                                                      *)
(***************************************************************************)
P_checks ==
  <<"c", "h", "e", "c", "k", "s">>
P_qualityChecks ==
  <<"q", "u", "a", "l", "i", "t", "y", "C", "h", "e", "c", "k", "s">>
P_autoScore ==
  <<"a", "u", "t", "o", "S", "c", "o", "r", "e">>
P_explanation ==
  <<"e", "x", "p", "l", "a", "n", "a", "t", "i", "o", "n">>
P_nameMentioned ==
  <<"n", "a", "m", "e", "M", "e", "n", "t", "i", "o", "n", "e", "d">>
P_statusMentioned ==
  <<"s", "t", "a", "t", "u", "s", "M", "e", "n", "t", "i", "o", "n", "e", "d">>
P_speciesMentioned ==
  <<"s", "p", "e", "c", "i", "e", "s", "M", "e", "n", "t", "i", "o", "n", "e", "d">>
P_typeMentioned ==
  <<"t", "y", "p", "e", "M", "e", "n", "t", "i", "o", "n", "e", "d">>
P_genderMentioned ==
  <<"g", "e", "n", "d", "e", "r", "M", "e", "n", "t", "i", "o", "n", "e", "d">>
P_originMentioned ==
  <<"o", "r", "i", "g", "i", "n", "M", "e", "n", "t", "i", "o", "n", "e", "d">>
P_locationMentioned ==
  <<"l", "o", "c", "a", "t", "i", "o", "n", "M", "e", "n", "t", "i", "o", "n", "e", "d">>
P_visualAppearanceMentioned ==
  <<"v", "i", "s", "u", "a", "l", "A", "p", "p", "e", "a", "r", "a", "n", "c", "e", "M", "e", "n", "t", "i", "o", "n", "e", "d">>
P_hasEpisodeContext ==
  <<"h", "a", "s", "E", "p", "i", "s", "o", "d", "e", "C", "o", "n", "t", "e", "x", "t">>
P_hasLocationContext ==
  <<"h", "a", "s", "L", "o", "c", "a", "t", "i", "o", "n", "C", "o", "n", "t", "e", "x", "t">>
P_hasRickAndMortyStyle ==
  <<"h", "a", "s", "R", "i", "c", "k", "A", "n", "d", "M", "o", "r", "t", "y", "S", "t", "y", "l", "e">>
P_hasCharacterDepth ==
  <<"h", "a", "s", "C", "h", "a", "r", "a", "c", "t", "e", "r", "D", "e", "p", "t", "h">>
P_dimensionMentioned ==
  <<"d", "i", "m", "e", "n", "s", "i", "o", "n", "M", "e", "n", "t", "i", "o", "n", "e", "d">>
P_totalResidentsMentioned ==
  <<"t", "o", "t", "a", "l", "R", "e", "s", "i", "d", "e", "n", "t", "s", "M", "e", "n", "t", "i", "o", "n", "e", "d">>
P_hasResidentInfo ==
  <<"h", "a", "s", "R", "e", "s", "i", "d", "e", "n", "t", "I", "n", "f", "o">>
P_hasContext ==
  <<"h", "a", "s", "C", "o", "n", "t", "e", "x", "t">>

NoExplanation ==
  <<"N", "o", " ", "e", "x", "p", "l", "a", "n", "a", "t", "i", "o", "n", " ", "p", "r", "o", "v", "i", "d", "e", "d">>

FailedToParsePrefix ==
  <<"F", "a", "i", "l", "e", "d", " ", "t", "o", " ", "p", "a", "r", "s", "e", " ", "e", "v", "a", "l", "u", "a", "t", "i", "o", "n", " ", "r", "e", "s", "p", "o", "n", "s", "e", ".", " ", "R", "a", "w", " ", "r", "e", "s", "p", "o", "n", "s", "e", ":", " ">>

Ellipsis == <<".", ".", ".">>

\* requiredChecks of the character evaluation.
RequiredChecks ==
  <<P_nameMentioned, P_statusMentioned, P_speciesMentioned, P_typeMentioned,
    P_genderMentioned, P_originMentioned, P_locationMentioned,
    P_visualAppearanceMentioned>>

\* requiredQualityChecks of the character evaluation.
RequiredQualityChecks ==
  <<P_hasEpisodeContext, P_hasLocationContext, P_hasRickAndMortyStyle,
    P_hasCharacterDepth>>

\* The checks the location evaluation defaults.
LocationDefaultedChecks == <<P_nameMentioned, P_typeMentioned, P_dimensionMentioned>>

\* The fields the location evaluation prompt asks the model for.
LocationPromptChecks ==
  <<P_nameMentioned, P_typeMentioned, P_dimensionMentioned, P_totalResidentsMentioned>>

LocationPromptQualityChecks ==
  <<P_hasResidentInfo, P_hasContext, P_hasRickAndMortyStyle>>

\* Whether a property assignment on x throws: the services are ES modules,
\* so strict mode, where creating a property on a primitive is a TypeError.
AssignThrows(x) == x.t \in {"str", "num", "bool"}

\* The named properties of a value: an object's entries, an array's added ones.
PropsOf(x) ==
  IF x.t = "obj" THEN x.v
  ELSE IF x.t = "arr" /\ "p" \in DOMAIN x THEN x.p
  ELSE <<>>

\* x[key] on a value that is neither null nor undefined.
ReadProp(x, key) ==
  IF HasKey(PropsOf(x), key) THEN Lookup(PropsOf(x), key) ELSE JUndef

\* x after x[key] = val, for an object or an array.
WriteProp(x, key, val) ==
  IF x.t = "obj" THEN JObj(SetEntry(x.v, key, val))
  ELSE [t |-> "arr", v |-> x.v, p |-> SetEntry(PropsOf(x), key, val)]

\* parsed.key || fallback.
PropOr(parsed, key, fallback) ==
  IF Truthy(GetProp(parsed, key)) THEN GetProp(parsed, key) ELSE fallback

\* The result object literal shared by the evaluation parsers.
InitialEvaluation(parsed) ==
  [checks |-> PropOr(parsed, P_checks, JObj(<<>>)),
   qualityChecks |-> PropOr(parsed, P_qualityChecks, JObj(<<>>)),
   autoScore |-> IF GetProp(parsed, P_autoScore).t # "undef"
                 THEN GetProp(parsed, P_autoScore)
                 ELSE JNum(<<"0">>),
   explanation |-> PropOr(parsed, P_explanation, JStr(NoExplanation))]

\* if (x[key] === undefined) x[key] = false, for the keys from position k on;
\* threw is set where the assignment throws.
RECURSIVE DefaultUndefined(_, _, _)
DefaultUndefined(x, keys, k) ==
  IF k > Len(keys) THEN [threw |-> FALSE, val |-> x]
  ELSE IF ReadProp(x, keys[k]).t # "undef" THEN DefaultUndefined(x, keys, k + 1)
  ELSE IF AssignThrows(x) THEN [threw |-> TRUE, val |-> x]
  ELSE DefaultUndefined(WriteProp(x, keys[k], JBool(FALSE)), keys, k + 1)

\* if (!x[key] && x[key] !== false) x[key] = false, for the keys from position k on.
RECURSIVE DefaultFalsy(_, _, _)
DefaultFalsy(x, keys, k) ==
  IF k > Len(keys) THEN [threw |-> FALSE, val |-> x]
  ELSE IF Truthy(ReadProp(x, keys[k])) \/ ReadProp(x, keys[k]).t = "bool"
  THEN DefaultFalsy(x, keys, k + 1)
  ELSE IF AssignThrows(x) THEN [threw |-> TRUE, val |-> x]
  ELSE DefaultFalsy(WriteProp(x, keys[k], JBool(FALSE)), keys, k + 1)

Raised == [raised |-> TRUE, value |-> <<>>]

Returned(value) == [raised |-> FALSE, value |-> value]

\* The result once each check object went through its defaults: raised where
\* the try block throws (a property read on null, an assignment on a primitive).
WithDefaults(parsed, result, checks, quality) ==
  IF parsed.t = "null" \/ checks.threw \/ quality.threw THEN Raised
  ELSE Returned([result EXCEPT !.checks = checks.val, !.qualityChecks = quality.val])

\* The defaults of the character parser on the result object literal.
CharacterDefaults(parsed, result) ==
  WithDefaults(parsed, result,
               DefaultUndefined(result.checks, RequiredChecks, 1),
               DefaultUndefined(result.qualityChecks, RequiredQualityChecks, 1))

\* The body of the character parser's try block on the parsed value.
CharacterEvaluationResult(parsed) == CharacterDefaults(parsed, InitialEvaluation(parsed))

\* The defaults of the location parser on the result object literal; its
\* quality checks stay as they are.
LocationDefaults(parsed, result) ==
  WithDefaults(parsed, result,
               DefaultFalsy(result.checks, LocationDefaultedChecks, 1),
               [threw |-> FALSE, val |-> result.qualityChecks])

\* formatEvaluationResult of the location evaluation, and the same lines of
\* its lenient variant.
FormatEvaluationResult(parsed) == LocationDefaults(parsed, InitialEvaluation(parsed))

\* The character parser's try block on the outcome of JSON.parse.
CharacterEvaluationOf(parse) ==
  IF ~parse.ok THEN Raised ELSE CharacterEvaluationResult(parse.val)

\* parseEvaluationResponse of characterEvaluationService.js: the whole
\* trimmed text must be JSON; every failure is rethrown as a parse error.
ParseEvaluationResponse(evaluationText) ==
  CharacterEvaluationOf(JSONParse(Trim(evaluationText)))

\* The location parser's try block on the outcome of JSON.parse.
LocationEvaluationOf(parse) ==
  IF ~parse.ok THEN Raised ELSE FormatEvaluationResult(parse.val)

\* parseEvaluationResponse of the location evaluation (characterInsightsService.js).
ParseLocationEvaluationResponse(evaluationText) ==
  LocationEvaluationOf(JSONParse(Trim(evaluationText)))

\* cleanedText.match(/\{[\s\S]*\}/): from the first { to the last } after it.
JsonMatch(cleanedText) ==
  LET open == FirstWhere(LAMBDA i : cleanedText[i] = "{", 1, Len(cleanedText))
      closes == {j \in (open + 1)..Len(cleanedText) : cleanedText[j] = "}"}
  IN IF open = 0 \/ closes = {} THEN NoMatch
     ELSE [found |-> TRUE,
           cap |-> SubSeq(cleanedText, open, CHOOSE j \in closes : \A k \in closes : k <= j)]

\* A record whose named fields are all false.
AllFalse(keys) == JObj([k \in 1..Len(keys) |-> <<keys[k], JBool(FALSE)>>])

\* The fallback record of the lenient parsers.
FallbackEvaluation(cleanedText, checkKeys, qualityKeys) ==
  [checks |-> AllFalse(checkKeys),
   qualityChecks |-> AllFalse(qualityKeys),
   autoScore |-> JNum(<<"0">>),
   explanation |-> JStr(FailedToParsePrefix \o Substring(cleanedText, 0, 100) \o Ellipsis)]

\* JSON.parse(jsonMatch[0]); where nothing matched there is nothing to parse.
ParseMatch(jsonMatch) ==
  IF jsonMatch.found THEN JSONParse(jsonMatch.cap) ELSE ParseFail

\* The lenient parsers' catch block and their no-match branch: the record
\* the try block built, or else the fallback record.
OrFallback(built, fallback) == IF built.raised THEN Returned(fallback) ELSE built

\* The lenient character parser on the cleaned text.
LenientCharacterEvaluation(cleanedText) ==
  OrFallback(CharacterEvaluationOf(ParseMatch(JsonMatch(cleanedText))),
             FallbackEvaluation(cleanedText, RequiredChecks, RequiredQualityChecks))

\* parseEvaluationResponse of the lenient character variant (part_003).
ParseEvaluationResponseLenient(evaluationText) ==
  LenientCharacterEvaluation(CleanText(evaluationText))

\* The lenient location parser on the cleaned text.
LenientLocationEvaluation(cleanedText) ==
  OrFallback(LocationEvaluationOf(ParseMatch(JsonMatch(cleanedText))),
             FallbackEvaluation(cleanedText, LocationDefaultedChecks,
                                LocationPromptQualityChecks))

\* parseEvaluationResponse of the lenient location variant (part_001).
ParseLocationEvaluationResponseLenient(evaluationText) ==
  LenientLocationEvaluation(CleanText(evaluationText))

(***************************************************************************)
(* Insights                                                                *)
(***************************************************************************)
P_text == <<"t", "e", "x", "t">>
P_insight == <<"i", "n", "s", "i", "g", "h", "t">>

ObjectObject == <<"[", "o", "b", "j", "e", "c", "t", " ", "O", "b", "j", "e", "c", "t", "]">>

\* The elements of seq joined with sep (Array.prototype.join).
RECURSIVE Join(_, _)
Join(seq, sep) ==
  IF seq = <<>> THEN <<>>
  ELSE IF Len(seq) = 1 THEN seq[1]
  ELSE seq[1] \o sep \o Join(Tail(seq), sep)

\* String(x) for a parsed JSON value; a number gives its lexeme (the
\* numbers of the texts are plain integers, which print as written).
RECURSIVE ToStringJS(_)
ToStringJS(x) ==
  CASE x.t = "str" -> x.v
    [] x.t = "num" -> x.v
    [] x.t = "bool" -> IF x.v THEN <<"t", "r", "u", "e">> ELSE <<"f", "a", "l", "s", "e">>
    [] x.t = "null" -> <<"n", "u", "l", "l">>
    [] x.t = "arr" ->
         Join([k \in 1..Len(x.v) |->
                 IF x.v[k].t \in {"null", "undef"} THEN <<>> ELSE ToStringJS(x.v[k])],
              <<",">>)
    [] OTHER -> ObjectObject

\* insight => typeof insight === 'string' ? insight
\*            : insight.text || insight.insight || String(insight)
InsightOf(insight) ==
  IF insight.t = "str" THEN insight
  ELSE IF Truthy(GetProp(insight, P_text)) THEN GetProp(insight, P_text)
  ELSE IF Truthy(GetProp(insight, P_insight)) THEN GetProp(insight, P_insight)
  ELSE JStr(ToStringJS(insight))

\* Whether position i starts a line (^ with the m flag).
LineStart(s, i) == i = 1 \/ s[i - 1] = "\n"

\* The position of the first newline at or after i, Len(s)+1 if none ($ with the m flag).
LineEnd(s, i) ==
  LET newline == FirstWhere(LAMBDA j : s[j] = "\n", i, Len(s))
  IN IF newline # 0 THEN newline
     ELSE IF i > Len(s) THEN i
     ELSE Len(s) + 1

\* The match of  \s*(.+)$  with the m flag from position a, the marker before
\* it being matched: the position after the match, or 0.  \s* runs over all
\* whitespace, newlines too; when only whitespace follows, it gives back up
\* to the last character that is no newline, which (.+) takes.
ItemEnd(s, a) ==
  LET w == SkipWs(s, a)
      rest == {u \in a..Len(s) : s[u] # "\n"}
  IN IF w <= Len(s) THEN LineEnd(s, w)
     ELSE IF rest = {} THEN 0
     ELSE (CHOOSE u \in rest : \A k \in rest : k <= u) + 1

\* /^\d+[\.\)]\s*(.+)$/ at i: the positions after the marker and after the match.
NumberedItemAt(s, i) ==
  LET d == SkipDigits(s, i)
  IN IF LineStart(s, i) /\ d > i /\ CharAt(s, d) \in {".", ")"} /\ ItemEnd(s, d + 1) # 0
     THEN [found |-> TRUE, from |-> d + 1, to |-> ItemEnd(s, d + 1)]
     ELSE [found |-> FALSE, from |-> 0, to |-> 0]

\* /^[-<bullet>*]\s*(.+)$/ at i.
BulletItemAt(s, i) ==
  IF LineStart(s, i) /\ s[i] \in {"-", Bullet, "*"} /\ ItemEnd(s, i + 1) # 0
  THEN [found |-> TRUE, from |-> i + 1, to |-> ItemEnd(s, i + 1)]
  ELSE [found |-> FALSE, from |-> 0, to |-> 0]

\* text.match(re) with the g flag, each match mapped to its trimmed text
\* after the marker; items[i] is the item match at position i, and k the
\* first position at or after i where an item matches, or 0.
RECURSIVE MatchedItems(_, _, _)
MatchedFrom(s, items, k) ==
  IF k = 0 THEN <<>>
  ELSE <<Trim(SubSeq(s, items[k].from, items[k].to - 1))>>
         \o MatchedItems(s, items, items[k].to)

MatchedItems(s, items, i) ==
  MatchedFrom(s, items, FirstWhere(LAMBDA j : items[j].found, i, Len(s)))

\* s.split('\n').
Lines(s) == Split(s, LAMBDA i : IF s[i] = "\n" THEN i + 1 ELSE 0)

K_insight == <<"i", "n", "s", "i", "g", "h", "t">>
K_suggestion == <<"s", "u", "g", "g", "e", "s", "t", "i", "o", "n">>

\* /^(insights?|suggestions?):?$/i
IsHeadingLine(line) ==
  \E word \in {K_insight, K_suggestion} :
    \E plural \in {<<>>, <<"s">>} :
      \E colon \in {<<>>, <<":">>} :
        ToLowerCase(line) = word \o plural \o colon

\* The first n elements of seq (Array.prototype.slice(0, n)).
Slice(seq, n) == SubSeq(seq, 1, IF Len(seq) < n THEN Len(seq) ELSE n)

\* The number of insights the service returns at most.
InsightCount == 5

\* The matches of the numbered-line expression, trimmed.
NumberedItems(insightsText) ==
  MatchedItems(insightsText,
               [i \in 1..Len(insightsText) |-> NumberedItemAt(insightsText, i)], 1)

\* The matches of the bullet-line expression, trimmed.
BulletLines(insightsText) ==
  MatchedItems(insightsText,
               [i \in 1..Len(insightsText) |-> BulletItemAt(insightsText, i)], 1)

\* The trimmed lines that are neither empty nor a heading.
PlainLines(insightsText) ==
  Filter(TrimAll(Lines(insightsText)),
         LAMBDA line : Len(line) > 0 /\ ~IsHeadingLine(line))

\* The bullet lines, or without any the first five plain lines.
BulletsOrLines(insightsText, bullets) ==
  IF Len(bullets) > 0 THEN StrValues(bullets)
  ELSE StrValues(Slice(PlainLines(insightsText), InsightCount))

\* The numbered lines, or without any the next strategy.
NumberedOrRest(insightsText, numbered) ==
  IF Len(numbered) > 0 THEN StrValues(numbered)
  ELSE BulletsOrLines(insightsText, BulletLines(insightsText))

\* Whether parsed.map throws: a property read on a null element.
MapThrows(parsed) == \E k \in 1..Len(parsed.v) : parsed.v[k].t = "null"

\* The try block on the outcome of JSON.parse, and what follows its catch.
InsightsOf(insightsText, parse) ==
  IF parse.ok /\ IsArray(parse.val) /\ ~MapThrows(parse.val)
  THEN [k \in 1..Len(parse.val.v) |-> InsightOf(parse.val.v[k])]
  ELSE NumberedOrRest(insightsText, NumberedItems(insightsText))

\* parseInsights: a JSON array, else numbered lines, else bullet lines, else
\* the first five non-empty lines that are no heading.
ParseInsights(insightsText) == InsightsOf(insightsText, JSONParse(insightsText))

\* generateFallbackInsights: five sentences built from the character's attributes.
GenerateFallbackInsights(characterData) ==
  StrValues(<<
    characterData.name \o <<" ", "i", "s", " ", "a", " ">> \o characterData.status \o <<" ">>
      \o characterData.species
      \o <<" ", "w", "i", "t", "h", " ", "a", " ", "u", "n", "i", "q", "u", "e", " ", "r", "o", "l", "e", " ", "i", "n", " ", "t", "h", "e", " ", "R", "i", "c", "k", " ", "a", "n", "d", " ", "M", "o", "r", "t", "y", " ", "u", "n", "i", "v", "e", "r", "s", "e", ".">>,
    <<"T", "h", "e", " ", "c", "h", "a", "r", "a", "c", "t", "e", "r", "'", "s", " ", "o", "r", "i", "g", "i", "n", " ", "f", "r", "o", "m", " ">> \o characterData.origin
      \o <<" ", "s", "u", "g", "g", "e", "s", "t", "s", " ", "i", "n", "t", "e", "r", "e", "s", "t", "i", "n", "g", " ", "b", "a", "c", "k", "s", "t", "o", "r", "y", " ", "p", "o", "t", "e", "n", "t", "i", "a", "l", ".">>,
    characterData.name \o <<"'", "s", " ", "c", "u", "r", "r", "e", "n", "t", " ", "l", "o", "c", "a", "t", "i", "o", "n", " ", "a", "t", " ">> \o characterData.location
      \o <<" ", "i", "n", "d", "i", "c", "a", "t", "e", "s", " ", "t", "h", "e", "i", "r", " ", "c", "u", "r", "r", "e", "n", "t", " ", "s", "t", "o", "r", "y", " ", "a", "r", "c", ".">>,
    <<"T", "h", "e", " ", "v", "i", "s", "u", "a", "l", " ", "a", "p", "p", "e", "a", "r", "a", "n", "c", "e", " ", "o", "f", " ">> \o characterData.name
      \o <<" ", "r", "e", "f", "l", "e", "c", "t", "s", " ", "t", "h", "e", "i", "r", " ", "s", "p", "e", "c", "i", "e", "s", " ", "a", "n", "d", " ", "p", "e", "r", "s", "o", "n", "a", "l", "i", "t", "y", " ", "t", "r", "a", "i", "t", "s", ".">>,
    <<"T", "h", "i", "s", " ", "c", "h", "a", "r", "a", "c", "t", "e", "r", "'", "s", " ", "j", "o", "u", "r", "n", "e", "y", " ", "t", "h", "r", "o", "u", "g", "h", " ", "t", "h", "e", " ", "m", "u", "l", "t", "i", "v", "e", "r", "s", "e", " ", "o", "f", "f", "e", "r", "s", " ", "r", "i", "c", "h", " ", "n", "a", "r", "r", "a", "t", "i", "v", "e", " ", "p", "o", "s", "s", "i", "b", "i", "l", "i", "t", "i", "e", "s", ".">>
  >>)

(***************************************************************************)
(* Fallback results                                                        *)
(***************************************************************************)

K_Dead == <<"D", "e", "a", "d">>

\* generateFallbackCompatibility (list-valued): template sentences built from
\* the two characters and the location.
GenerateFallbackCompatibility(char1, char2, location) ==
  LET dynamic == IF char1.species = char2.species THEN <<"n", "a", "t", "u", "r", "a", "l">> ELSE <<"c", "h", "a", "l", "l", "e", "n", "g", "i", "n", "g">>
      speciesAnd == IF char1.species # char2.species THEN <<"s", "p", "e", "c", "i", "e", "s", " ", "a", "n", "d">> ELSE <<>>
      breaker == IF char1.status = K_Dead THEN char1.name
                 ELSE IF char2.status = K_Dead THEN char2.name
                 ELSE <<"e", "i", "t", "h", "e", "r", " ", "c", "h", "a", "r", "a", "c", "t", "e", "r">>
  IN [
    teamWork |-> StrValues(<<
      char1.name
        \o <<" ", "a", "n", "d", " ">>
        \o char2.name
        \o <<" ", "w", "o", "u", "l", "d", " ", "h", "a", "v", "e", " ", "a", " ">>
        \o dynamic
        \o <<" ", "d", "y", "n", "a", "m", "i", "c", " ", "a", "s", " ", "a", " ", "t", "e", "a", "m", ".">>,
      <<"T", "h", "e", "i", "r", " ", "d", "i", "f", "f", "e", "r", "e", "n", "t", " ", "b", "a", "c", "k", "g", "r", "o", "u", "n", "d", "s", " ", "f", "r", "o", "m", " ">>
        \o char1.origin
        \o <<" ", "a", "n", "d", " ">>
        \o char2.origin
        \o <<" ", "c", "o", "u", "l", "d", " ", "c", "r", "e", "a", "t", "e", " ", "i", "n", "t", "e", "r", "e", "s", "t", "i", "n", "g", " ", "s", "y", "n", "e", "r", "g", "i", "e", "s", ".">>,
      char1.name
        \o <<"'", "s", " ">>
        \o char1.status
        \o <<" ", "s", "t", "a", "t", "u", "s", " ", "a", "n", "d", " ">>
        \o char2.name
        \o <<"'", "s", " ">>
        \o char2.status
        \o <<" ", "s", "t", "a", "t", "u", "s", " ", "w", "o", "u", "l", "d", " ", "i", "n", "f", "l", "u", "e", "n", "c", "e", " ", "t", "h", "e", "i", "r", " ", "t", "e", "a", "m", "w", "o", "r", "k", ".">>,
      <<"T", "h", "e", "i", "r", " ", "c", "o", "m", "b", "i", "n", "e", "d", " ", "s", "k", "i", "l", "l", "s", " ", "c", "o", "u", "l", "d", " ", "b", "e", " ", "c", "o", "m", "p", "l", "e", "m", "e", "n", "t", "a", "r", "y", " ", "i", "n", " ", "n", "a", "v", "i", "g", "a", "t", "i", "n", "g", " ">>
        \o location.name
        \o <<".">>>>),
    conflicts |-> StrValues(<<
      <<"T", "h", "e", "y", " ", "m", "i", "g", "h", "t", " ", "c", "l", "a", "s", "h", " ", "o", "v", "e", "r", " ", "d", "i", "f", "f", "e", "r", "e", "n", "c", "e", "s", " ", "i", "n", " ", "t", "h", "e", "i", "r", " ">>
        \o speciesAnd
        \o <<" ", "a", "p", "p", "r", "o", "a", "c", "h", "e", "s", " ", "t", "o", " ", "s", "i", "t", "u", "a", "t", "i", "o", "n", "s", ".">>,
      char1.name
        \o <<"'", "s", " ">>
        \o char1.status
        \o <<" ", "s", "t", "a", "t", "u", "s", " ", "a", "n", "d", " ">>
        \o char2.name
        \o <<"'", "s", " ">>
        \o char2.status
        \o <<" ", "s", "t", "a", "t", "u", "s", " ", "c", "o", "u", "l", "d", " ", "c", "r", "e", "a", "t", "e", " ", "u", "n", "d", "e", "r", "l", "y", "i", "n", "g", " ", "t", "e", "n", "s", "i", "o", "n", "s", ".">>,
      <<"D", "i", "f", "f", "e", "r", "e", "n", "t", " ", "p", "e", "r", "s", "p", "e", "c", "t", "i", "v", "e", "s", " ", "o", "n", " ", "h", "o", "w", " ", "t", "o", " ", "h", "a", "n", "d", "l", "e", " ", "c", "h", "a", "l", "l", "e", "n", "g", "e", "s", " ", "a", "t", " ">>
        \o location.name
        \o <<" ", "w", "o", "u", "l", "d", " ", "l", "i", "k", "e", "l", "y", " ", "c", "a", "u", "s", "e", " ", "d", "i", "s", "a", "g", "r", "e", "e", "m", "e", "n", "t", "s", ".">>>>),
    breaksFirst |-> StrValues(<<
      <<"G", "i", "v", "e", "n", " ", "t", "h", "e", "i", "r", " ", "c", "h", "a", "r", "a", "c", "t", "e", "r", "i", "s", "t", "i", "c", "s", ",", " ">>
        \o breaker
        \o <<" ", "m", "i", "g", "h", "t", " ", "b", "e", " ", "m", "o", "r", "e", " ", "l", "i", "k", "e", "l", "y", " ", "t", "o", " ", "b", "r", "e", "a", "k", " ", "u", "n", "d", "e", "r", " ", "p", "r", "e", "s", "s", "u", "r", "e", ".">>,
      <<"T", "h", "e", " ", "s", "p", "e", "c", "i", "f", "i", "c", " ", "c", "i", "r", "c", "u", "m", "s", "t", "a", "n", "c", "e", "s", " ", "a", "t", " ">>
        \o location.name
        \o <<" ", "w", "o", "u", "l", "d", " ", "t", "e", "s", "t", " ", "t", "h", "e", "i", "r", " ", "m", "e", "n", "t", "a", "l", " ", "r", "e", "s", "i", "l", "i", "e", "n", "c", "e", ".">>>>)]

\* generateFallbackCompatibility (string-valued).
GenerateFallbackCompatibilityText(char1, char2, location) ==
  LET dynamic == IF char1.species = char2.species THEN <<"n", "a", "t", "u", "r", "a", "l">> ELSE <<"c", "h", "a", "l", "l", "e", "n", "g", "i", "n", "g">>
      speciesAnd == IF char1.species # char2.species THEN <<"s", "p", "e", "c", "i", "e", "s", " ", "a", "n", "d">> ELSE <<>>
      breaker == IF char1.status = K_Dead THEN char1.name
                 ELSE IF char2.status = K_Dead THEN char2.name
                 ELSE <<"e", "i", "t", "h", "e", "r", " ", "c", "h", "a", "r", "a", "c", "t", "e", "r">>
  IN [
    teamWork |->
      char1.name
        \o <<" ", "a", "n", "d", " ">>
        \o char2.name
        \o <<" ", "w", "o", "u", "l", "d", " ", "h", "a", "v", "e", " ", "a", " ">>
        \o dynamic
        \o <<" ", "d", "y", "n", "a", "m", "i", "c", " ", "a", "s", " ", "a", " ", "t", "e", "a", "m", ".", " ", "T", "h", "e", "i", "r", " ", "d", "i", "f", "f", "e", "r", "e", "n", "t", " ", "b", "a", "c", "k", "g", "r", "o", "u", "n", "d", "s", " ", "f", "r", "o", "m", " ">>
        \o char1.origin
        \o <<" ", "a", "n", "d", " ">>
        \o char2.origin
        \o <<" ", "c", "o", "u", "l", "d", " ", "c", "r", "e", "a", "t", "e", " ", "i", "n", "t", "e", "r", "e", "s", "t", "i", "n", "g", " ", "s", "y", "n", "e", "r", "g", "i", "e", "s", " ", "o", "r", " ", "t", "e", "n", "s", "i", "o", "n", "s", ".">>,
    conflicts |->
      <<"T", "h", "e", "y", " ", "m", "i", "g", "h", "t", " ", "c", "l", "a", "s", "h", " ", "o", "v", "e", "r", " ", "d", "i", "f", "f", "e", "r", "e", "n", "c", "e", "s", " ", "i", "n", " ", "t", "h", "e", "i", "r", " ">>
        \o speciesAnd
        \o <<" ", "a", "p", "p", "r", "o", "a", "c", "h", "e", "s", " ", "t", "o", " ", "s", "i", "t", "u", "a", "t", "i", "o", "n", "s", ".", " ">>
        \o char1.name
        \o <<"'", "s", " ">>
        \o char1.status
        \o <<" ", "s", "t", "a", "t", "u", "s", " ", "a", "n", "d", " ">>
        \o char2.name
        \o <<"'", "s", " ">>
        \o char2.status
        \o <<" ", "s", "t", "a", "t", "u", "s", " ", "c", "o", "u", "l", "d", " ", "a", "l", "s", "o", " ", "c", "r", "e", "a", "t", "e", " ", "u", "n", "d", "e", "r", "l", "y", "i", "n", "g", " ", "t", "e", "n", "s", "i", "o", "n", "s", ".">>,
    breaksFirst |->
      <<"G", "i", "v", "e", "n", " ", "t", "h", "e", "i", "r", " ", "c", "h", "a", "r", "a", "c", "t", "e", "r", "i", "s", "t", "i", "c", "s", ",", " ">>
        \o breaker
        \o <<" ", "m", "i", "g", "h", "t", " ", "b", "e", " ", "m", "o", "r", "e", " ", "l", "i", "k", "e", "l", "y", " ", "t", "o", " ", "b", "r", "e", "a", "k", " ", "u", "n", "d", "e", "r", " ", "p", "r", "e", "s", "s", "u", "r", "e", ",", " ", "d", "e", "p", "e", "n", "d", "i", "n", "g", " ", "o", "n", " ", "t", "h", "e", " ", "s", "p", "e", "c", "i", "f", "i", "c", " ", "c", "i", "r", "c", "u", "m", "s", "t", "a", "n", "c", "e", "s", " ", "a", "t", " ">>
        \o location.name
        \o <<".">>]


(***************************************************************************)
(* Inputs: the texts a language model may answer with, and the cast        *)
(***************************************************************************)

\* The longest text of the exhaustive family.
MaxLen == 3

\* The longest text of the uniform-prose family.
MaxProse == 40

\* The characters of the exhaustive family.
Alphabet == {" ", "\n", "a", "{", "}"}

\* Every text over Alphabet of at most MaxLen characters.
ShortTexts == UNION {[1..n -> Alphabet] : n \in 0..MaxLen}

\* Prose of n characters without keyword, separator or punctuation.
Prose(n) == [i \in 1..n |-> "x"]

ProseTexts == {Prose(n) : n \in 0..MaxProse}

\* A text of 300 characters that no earlier tier accepts.
T_prose300 == Prose(300)

\* {\"teamWork\":[\"a\"],\"conflicts\":[],\"breaksFirst\":[\"b\"]}
T_scenarioB ==
  <<"{", "\"", "t", "e", "a", "m", "W", "o", "r", "k", "\"", ":", "[", "\"",
    "a", "\"", "]", ",", "\"", "c", "o", "n", "f", "l", "i", "c", "t", "s",
    "\"", ":", "[", "]", ",", "\"", "b", "r", "e", "a", "k", "s", "F", "i",
    "r", "s", "t", "\"", ":", "[", "\"", "b", "\"", "]", "}">>

\* {\"teamWork\":[],\"conflicts\":[],\"breaksFirst\":[]}
T_allEmpty ==
  <<"{", "\"", "t", "e", "a", "m", "W", "o", "r", "k", "\"", ":", "[", "]",
    ",", "\"", "c", "o", "n", "f", "l", "i", "c", "t", "s", "\"", ":", "[",
    "]", ",", "\"", "b", "r", "e", "a", "k", "s", "F", "i", "r", "s", "t",
    "\"", ":", "[", "]", "}">>

\* {\"teamWork\": [\"plan well\", \"share tools\"], \"conflicts\":
\* [\"argue\"], \"breaksFirst\": [\"Morty\"]}
T_compatFull ==
  <<"{", "\"", "t", "e", "a", "m", "W", "o", "r", "k", "\"", ":", " ", "[",
    "\"", "p", "l", "a", "n", " ", "w", "e", "l", "l", "\"", ",", " ", "\"",
    "s", "h", "a", "r", "e", " ", "t", "o", "o", "l", "s", "\"", "]", ",",
    " ", "\"", "c", "o", "n", "f", "l", "i", "c", "t", "s", "\"", ":", " ",
    "[", "\"", "a", "r", "g", "u", "e", "\"", "]", ",", " ", "\"", "b", "r",
    "e", "a", "k", "s", "F", "i", "r", "s", "t", "\"", ":", " ", "[", "\"",
    "M", "o", "r", "t", "y", "\"", "]", "}">>

\* {\"teamWork\":[\"a\"]}
T_compatPartial ==
  <<"{", "\"", "t", "e", "a", "m", "W", "o", "r", "k", "\"", ":", "[", "\"",
    "a", "\"", "]", "}">>

\* {\"teamWork\":\"a\",\"conflicts\":5,\"breaksFirst\":null}
T_compatNotLists ==
  <<"{", "\"", "t", "e", "a", "m", "W", "o", "r", "k", "\"", ":", "\"", "a",
    "\"", ",", "\"", "c", "o", "n", "f", "l", "i", "c", "t", "s", "\"", ":",
    "5", ",", "\"", "b", "r", "e", "a", "k", "s", "F", "i", "r", "s", "t",
    "\"", ":", "n", "u", "l", "l", "}">>

\* null
T_null ==
  <<"n", "u", "l", "l">>

\* 5
T_number ==
  <<"5">>

\* []
T_emptyArray ==
  <<"[", "]">>

\* 1. Team Work: They cooperate well together. 2. Conflict: They argue about
\* everything always. 3. Breaks First: Morty gives up quickly here.
T_labeled ==
  <<"1", ".", " ", "T", "e", "a", "m", " ", "W", "o", "r", "k", ":", " ",
    "T", "h", "e", "y", " ", "c", "o", "o", "p", "e", "r", "a", "t", "e",
    " ", "w", "e", "l", "l", " ", "t", "o", "g", "e", "t", "h", "e", "r",
    ".", " ", "2", ".", " ", "C", "o", "n", "f", "l", "i", "c", "t", ":",
    " ", "T", "h", "e", "y", " ", "a", "r", "g", "u", "e", " ", "a", "b",
    "o", "u", "t", " ", "e", "v", "e", "r", "y", "t", "h", "i", "n", "g",
    " ", "a", "l", "w", "a", "y", "s", ".", " ", "3", ".", " ", "B", "r",
    "e", "a", "k", "s", " ", "F", "i", "r", "s", "t", ":", " ", "M", "o",
    "r", "t", "y", " ", "g", "i", "v", "e", "s", " ", "u", "p", " ", "q",
    "u", "i", "c", "k", "l", "y", " ", "h", "e", "r", "e", ".">>

\* Team Work: good. Conflict: Breaks first: yes
T_labeledEmptyGroup ==
  <<"T", "e", "a", "m", " ", "W", "o", "r", "k", ":", " ", "g", "o", "o",
    "d", ".", " ", "C", "o", "n", "f", "l", "i", "c", "t", ":", " ", "B",
    "r", "e", "a", "k", "s", " ", "f", "i", "r", "s", "t", ":", " ", "y",
    "e", "s">>

\* TEAM WORK:\n- they plan carefully\n- they share the gadgets\nCONFLICT:\n-
\* about driving the ship\n- about paying the bills\nWho breaks first: Morty
\* cracks under stress.
T_labeledBullets ==
  <<"T", "E", "A", "M", " ", "W", "O", "R", "K", ":", "\n", "-", " ", "t",
    "h", "e", "y", " ", "p", "l", "a", "n", " ", "c", "a", "r", "e", "f",
    "u", "l", "l", "y", "\n", "-", " ", "t", "h", "e", "y", " ", "s", "h",
    "a", "r", "e", " ", "t", "h", "e", " ", "g", "a", "d", "g", "e", "t",
    "s", "\n", "C", "O", "N", "F", "L", "I", "C", "T", ":", "\n", "-", " ",
    "a", "b", "o", "u", "t", " ", "d", "r", "i", "v", "i", "n", "g", " ",
    "t", "h", "e", " ", "s", "h", "i", "p", "\n", "-", " ", "a", "b", "o",
    "u", "t", " ", "p", "a", "y", "i", "n", "g", " ", "t", "h", "e", " ",
    "b", "i", "l", "l", "s", "\n", "W", "h", "o", " ", "b", "r", "e", "a",
    "k", "s", " ", "f", "i", "r", "s", "t", ":", " ", "M", "o", "r", "t",
    "y", " ", "c", "r", "a", "c", "k", "s", " ", "u", "n", "d", "e", "r",
    " ", "s", "t", "r", "e", "s", "s", ".">>

\* 1 - team: they plan carefully 2: fight over the portal gun 3 who: Morty
\* cracks
T_marked ==
  <<"1", " ", "-", " ", "t", "e", "a", "m", ":", " ", "t", "h", "e", "y",
    " ", "p", "l", "a", "n", " ", "c", "a", "r", "e", "f", "u", "l", "l",
    "y", " ", "2", ":", " ", "f", "i", "g", "h", "t", " ", "o", "v", "e",
    "r", " ", "t", "h", "e", " ", "p", "o", "r", "t", "a", "l", " ", "g",
    "u", "n", " ", "3", " ", "w", "h", "o", ":", " ", "M", "o", "r", "t",
    "y", " ", "c", "r", "a", "c", "k", "s">>

\* They get along fine here.\n\nThey argue about money often.\n\nMorty would
\* crack long before Rick.
T_paragraphs ==
  <<"T", "h", "e", "y", " ", "g", "e", "t", " ", "a", "l", "o", "n", "g",
    " ", "f", "i", "n", "e", " ", "h", "e", "r", "e", ".", "\n", "\n", "T",
    "h", "e", "y", " ", "a", "r", "g", "u", "e", " ", "a", "b", "o", "u",
    "t", " ", "m", "o", "n", "e", "y", " ", "o", "f", "t", "e", "n", ".",
    "\n", "\n", "M", "o", "r", "t", "y", " ", "w", "o", "u", "l", "d", " ",
    "c", "r", "a", "c", "k", " ", "l", "o", "n", "g", " ", "b", "e", "f",
    "o", "r", "e", " ", "R", "i", "c", "k", ".">>

\* alpha\n\nbeta\n \n\ngamma
T_paragraphsShort ==
  <<"a", "l", "p", "h", "a", "\n", "\n", "b", "e", "t", "a", "\n", " ", "\n",
    "\n", "g", "a", "m", "m", "a">>

\* Intro line about the pair.\n\nTheir team spirit is strong.\n---\nThey
\* fight about the ship.
T_paragraphsKeyword ==
  <<"I", "n", "t", "r", "o", " ", "l", "i", "n", "e", " ", "a", "b", "o",
    "u", "t", " ", "t", "h", "e", " ", "p", "a", "i", "r", ".", "\n", "\n",
    "T", "h", "e", "i", "r", " ", "t", "e", "a", "m", " ", "s", "p", "i",
    "r", "i", "t", " ", "i", "s", " ", "s", "t", "r", "o", "n", "g", ".",
    "\n", "-", "-", "-", "\n", "T", "h", "e", "y", " ", "f", "i", "g", "h",
    "t", " ", "a", "b", "o", "u", "t", " ", "t", "h", "e", " ", "s", "h",
    "i", "p", ".">>

\* Rick builds a portal gun quickly. Morty panics and runs away! Summer takes
\* charge of things?
T_sentences ==
  <<"R", "i", "c", "k", " ", "b", "u", "i", "l", "d", "s", " ", "a", " ",
    "p", "o", "r", "t", "a", "l", " ", "g", "u", "n", " ", "q", "u", "i",
    "c", "k", "l", "y", ".", " ", "M", "o", "r", "t", "y", " ", "p", "a",
    "n", "i", "c", "s", " ", "a", "n", "d", " ", "r", "u", "n", "s", " ",
    "a", "w", "a", "y", "!", " ", "S", "u", "m", "m", "e", "r", " ", "t",
    "a", "k", "e", "s", " ", "c", "h", "a", "r", "g", "e", " ", "o", "f",
    " ", "t", "h", "i", "n", "g", "s", "?">>

\* Overview of the pair\n- they plan carefully\n* they share the gadgets\n2.
\* they argue about money\n- furthermore\n- short
T_bulletsOnly ==
  <<"O", "v", "e", "r", "v", "i", "e", "w", " ", "o", "f", " ", "t", "h",
    "e", " ", "p", "a", "i", "r", "\n", "-", " ", "t", "h", "e", "y", " ",
    "p", "l", "a", "n", " ", "c", "a", "r", "e", "f", "u", "l", "l", "y",
    "\n", "*", " ", "t", "h", "e", "y", " ", "s", "h", "a", "r", "e", " ",
    "t", "h", "e", " ", "g", "a", "d", "g", "e", "t", "s", "\n", "2", ".",
    " ", "t", "h", "e", "y", " ", "a", "r", "g", "u", "e", " ", "a", "b",
    "o", "u", "t", " ", "m", "o", "n", "e", "y", "\n", "-", " ", "f", "u",
    "r", "t", "h", "e", "r", "m", "o", "r", "e", "\n", "-", " ", "s", "h",
    "o", "r", "t">>

\* {\"checks\":{\"nameMentioned\":true,\"statusMentioned\":true,\"speciesMent
\* ioned\":false,\"typeMentioned\":false,\"genderMentioned\":true,\"originMen
\* tioned\":true,\"locationMentioned\":false,\"visualAppearanceMentioned\":tr
\* ue},\"qualityChecks\":{\"hasEpisodeContext\":true,\"hasLocationContext\":f
\* alse,\"hasRickAndMortyStyle\":true,\"hasCharacterDepth\":false},\"autoScor
\* e\":8,\"explanation\":\"ok\"}
T_evalFull ==
  <<"{", "\"", "c", "h", "e", "c", "k", "s", "\"", ":", "{", "\"", "n", "a",
    "m", "e", "M", "e", "n", "t", "i", "o", "n", "e", "d", "\"", ":", "t",
    "r", "u", "e", ",", "\"", "s", "t", "a", "t", "u", "s", "M", "e", "n",
    "t", "i", "o", "n", "e", "d", "\"", ":", "t", "r", "u", "e", ",", "\"",
    "s", "p", "e", "c", "i", "e", "s", "M", "e", "n", "t", "i", "o", "n",
    "e", "d", "\"", ":", "f", "a", "l", "s", "e", ",", "\"", "t", "y", "p",
    "e", "M", "e", "n", "t", "i", "o", "n", "e", "d", "\"", ":", "f", "a",
    "l", "s", "e", ",", "\"", "g", "e", "n", "d", "e", "r", "M", "e", "n",
    "t", "i", "o", "n", "e", "d", "\"", ":", "t", "r", "u", "e", ",", "\"",
    "o", "r", "i", "g", "i", "n", "M", "e", "n", "t", "i", "o", "n", "e",
    "d", "\"", ":", "t", "r", "u", "e", ",", "\"", "l", "o", "c", "a", "t",
    "i", "o", "n", "M", "e", "n", "t", "i", "o", "n", "e", "d", "\"", ":",
    "f", "a", "l", "s", "e", ",", "\"", "v", "i", "s", "u", "a", "l", "A",
    "p", "p", "e", "a", "r", "a", "n", "c", "e", "M", "e", "n", "t", "i",
    "o", "n", "e", "d", "\"", ":", "t", "r", "u", "e", "}", ",", "\"", "q",
    "u", "a", "l", "i", "t", "y", "C", "h", "e", "c", "k", "s", "\"", ":",
    "{", "\"", "h", "a", "s", "E", "p", "i", "s", "o", "d", "e", "C", "o",
    "n", "t", "e", "x", "t", "\"", ":", "t", "r", "u", "e", ",", "\"", "h",
    "a", "s", "L", "o", "c", "a", "t", "i", "o", "n", "C", "o", "n", "t",
    "e", "x", "t", "\"", ":", "f", "a", "l", "s", "e", ",", "\"", "h", "a",
    "s", "R", "i", "c", "k", "A", "n", "d", "M", "o", "r", "t", "y", "S",
    "t", "y", "l", "e", "\"", ":", "t", "r", "u", "e", ",", "\"", "h", "a",
    "s", "C", "h", "a", "r", "a", "c", "t", "e", "r", "D", "e", "p", "t",
    "h", "\"", ":", "f", "a", "l", "s", "e", "}", ",", "\"", "a", "u", "t",
    "o", "S", "c", "o", "r", "e", "\"", ":", "8", ",", "\"", "e", "x", "p",
    "l", "a", "n", "a", "t", "i", "o", "n", "\"", ":", "\"", "o", "k", "\"",
    "}">>

\* {\"checks\":{\"nameMentioned\":true,\"typeMentioned\":true,\"dimensionMent
\* ioned\":false,\"totalResidentsMentioned\":true},\"qualityChecks\":{\"hasRe
\* sidentInfo\":true,\"hasContext\":true,\"hasRickAndMortyStyle\":false},\"au
\* toScore\":9,\"explanation\":\"fine\"}
T_evalLocationFull ==
  <<"{", "\"", "c", "h", "e", "c", "k", "s", "\"", ":", "{", "\"", "n", "a",
    "m", "e", "M", "e", "n", "t", "i", "o", "n", "e", "d", "\"", ":", "t",
    "r", "u", "e", ",", "\"", "t", "y", "p", "e", "M", "e", "n", "t", "i",
    "o", "n", "e", "d", "\"", ":", "t", "r", "u", "e", ",", "\"", "d", "i",
    "m", "e", "n", "s", "i", "o", "n", "M", "e", "n", "t", "i", "o", "n",
    "e", "d", "\"", ":", "f", "a", "l", "s", "e", ",", "\"", "t", "o", "t",
    "a", "l", "R", "e", "s", "i", "d", "e", "n", "t", "s", "M", "e", "n",
    "t", "i", "o", "n", "e", "d", "\"", ":", "t", "r", "u", "e", "}", ",",
    "\"", "q", "u", "a", "l", "i", "t", "y", "C", "h", "e", "c", "k", "s",
    "\"", ":", "{", "\"", "h", "a", "s", "R", "e", "s", "i", "d", "e", "n",
    "t", "I", "n", "f", "o", "\"", ":", "t", "r", "u", "e", ",", "\"", "h",
    "a", "s", "C", "o", "n", "t", "e", "x", "t", "\"", ":", "t", "r", "u",
    "e", ",", "\"", "h", "a", "s", "R", "i", "c", "k", "A", "n", "d", "M",
    "o", "r", "t", "y", "S", "t", "y", "l", "e", "\"", ":", "f", "a", "l",
    "s", "e", "}", ",", "\"", "a", "u", "t", "o", "S", "c", "o", "r", "e",
    "\"", ":", "9", ",", "\"", "e", "x", "p", "l", "a", "n", "a", "t", "i",
    "o", "n", "\"", ":", "\"", "f", "i", "n", "e", "\"", "}">>

\* {\"checks\":{\"nameMentioned\":true},\"autoScore\":7}
T_evalPartial ==
  <<"{", "\"", "c", "h", "e", "c", "k", "s", "\"", ":", "{", "\"", "n", "a",
    "m", "e", "M", "e", "n", "t", "i", "o", "n", "e", "d", "\"", ":", "t",
    "r", "u", "e", "}", ",", "\"", "a", "u", "t", "o", "S", "c", "o", "r",
    "e", "\"", ":", "7", "}">>

\* {\"checks\":{\"nameMentioned\":\"yes\",\"typeMentioned\":1,\"dimensionMent
\* ioned\":null,\"statusMentioned\":{}},\"qualityChecks\":{\"hasContext\":\"n
\* o\",\"hasRickAndMortyStyle\":0}}
T_evalNonBoolean ==
  <<"{", "\"", "c", "h", "e", "c", "k", "s", "\"", ":", "{", "\"", "n", "a",
    "m", "e", "M", "e", "n", "t", "i", "o", "n", "e", "d", "\"", ":", "\"",
    "y", "e", "s", "\"", ",", "\"", "t", "y", "p", "e", "M", "e", "n", "t",
    "i", "o", "n", "e", "d", "\"", ":", "1", ",", "\"", "d", "i", "m", "e",
    "n", "s", "i", "o", "n", "M", "e", "n", "t", "i", "o", "n", "e", "d",
    "\"", ":", "n", "u", "l", "l", ",", "\"", "s", "t", "a", "t", "u", "s",
    "M", "e", "n", "t", "i", "o", "n", "e", "d", "\"", ":", "{", "}", "}",
    ",", "\"", "q", "u", "a", "l", "i", "t", "y", "C", "h", "e", "c", "k",
    "s", "\"", ":", "{", "\"", "h", "a", "s", "C", "o", "n", "t", "e", "x",
    "t", "\"", ":", "\"", "n", "o", "\"", ",", "\"", "h", "a", "s", "R", "i",
    "c", "k", "A", "n", "d", "M", "o", "r", "t", "y", "S", "t", "y", "l",
    "e", "\"", ":", "0", "}", "}">>

\* {\"checks\":\"all good\"}
T_evalChecksString ==
  <<"{", "\"", "c", "h", "e", "c", "k", "s", "\"", ":", "\"", "a", "l", "l",
    " ", "g", "o", "o", "d", "\"", "}">>

\* {\"checks\":null,\"qualityChecks\":0,\"explanation\":\"\"}
T_evalChecksNull ==
  <<"{", "\"", "c", "h", "e", "c", "k", "s", "\"", ":", "n", "u", "l", "l",
    ",", "\"", "q", "u", "a", "l", "i", "t", "y", "C", "h", "e", "c", "k",
    "s", "\"", ":", "0", ",", "\"", "e", "x", "p", "l", "a", "n", "a", "t",
    "i", "o", "n", "\"", ":", "\"", "\"", "}">>

\* {\"checks\":[true],\"explanation\":\"listed\"}
T_evalChecksArray ==
  <<"{", "\"", "c", "h", "e", "c", "k", "s", "\"", ":", "[", "t", "r", "u",
    "e", "]", ",", "\"", "e", "x", "p", "l", "a", "n", "a", "t", "i", "o",
    "n", "\"", ":", "\"", "l", "i", "s", "t", "e", "d", "\"", "}">>

\* {\"autoScore\":42}
T_evalScoreHigh ==
  <<"{", "\"", "a", "u", "t", "o", "S", "c", "o", "r", "e", "\"", ":", "4",
    "2", "}">>

\* {\"autoScore\":-3}
T_evalScoreNegative ==
  <<"{", "\"", "a", "u", "t", "o", "S", "c", "o", "r", "e", "\"", ":", "-",
    "3", "}">>

\* {\"autoScore\":\"high\",\"explanation\":\"x\"}
T_evalScoreText ==
  <<"{", "\"", "a", "u", "t", "o", "S", "c", "o", "r", "e", "\"", ":", "\"",
    "h", "i", "g", "h", "\"", ",", "\"", "e", "x", "p", "l", "a", "n", "a",
    "t", "i", "o", "n", "\"", ":", "\"", "x", "\"", "}">>

\* {\"autoScore\":null}
T_evalScoreNull ==
  <<"{", "\"", "a", "u", "t", "o", "S", "c", "o", "r", "e", "\"", ":", "n",
    "u", "l", "l", "}">>

\* <bt><bt><bt>json\n{\"explanation\":\"use <bt><bt><bt>js<bt><bt><bt>
\* blocks\"}\n<bt><bt><bt>
T_evalInnerFence ==
  <<Backtick, Backtick, Backtick, "j", "s", "o", "n", "\n", "{", "\"", "e",
    "x", "p", "l", "a", "n", "a", "t", "i", "o", "n", "\"", ":", "\"", "u",
    "s", "e", " ", Backtick, Backtick, Backtick, "j", "s", Backtick,
    Backtick, Backtick, " ", "b", "l", "o", "c", "k", "s", "\"", "}", "\n",
    Backtick, Backtick, Backtick>>

\* <bt><bt><bt>\n{\"explanation\":\"a <bt><bt><bt>json block\"}\n<bt><bt><bt>
T_fenceLate ==
  <<Backtick, Backtick, Backtick, "\n", "{", "\"", "e", "x", "p", "l", "a",
    "n", "a", "t", "i", "o", "n", "\"", ":", "\"", "a", " ", Backtick,
    Backtick, Backtick, "j", "s", "o", "n", " ", "b", "l", "o", "c", "k",
    "\"", "}", "\n", Backtick, Backtick, Backtick>>

\* [\"a1\",\"a2\",\"a3\",\"a4\",\"a5\"]
T_insightsJson5 ==
  <<"[", "\"", "a", "1", "\"", ",", "\"", "a", "2", "\"", ",", "\"", "a",
    "3", "\"", ",", "\"", "a", "4", "\"", ",", "\"", "a", "5", "\"", "]">>

\* [\"a1\",\"a2\"]
T_insightsJson2 ==
  <<"[", "\"", "a", "1", "\"", ",", "\"", "a", "2", "\"", "]">>

\* [\"a1\",\"a2\",\"a3\",\"a4\",\"a5\",\"a6\"]
T_insightsJson6 ==
  <<"[", "\"", "a", "1", "\"", ",", "\"", "a", "2", "\"", ",", "\"", "a",
    "3", "\"", ",", "\"", "a", "4", "\"", ",", "\"", "a", "5", "\"", ",",
    "\"", "a", "6", "\"", "]">>

\* [{\"text\":\"a\"},{\"insight\":\"b\"},7,{}]
T_insightsObjects ==
  <<"[", "{", "\"", "t", "e", "x", "t", "\"", ":", "\"", "a", "\"", "}", ",",
    "{", "\"", "i", "n", "s", "i", "g", "h", "t", "\"", ":", "\"", "b", "\"",
    "}", ",", "7", ",", "{", "}", "]">>

\* [\"a\",null]
T_insightsNullItem ==
  <<"[", "\"", "a", "\"", ",", "n", "u", "l", "l", "]">>

\* 1. i1\n2. i2\n3. i3\n4) i4\n5. i5\n6. i6\n7. i7
T_insightsNumbered7 ==
  <<"1", ".", " ", "i", "1", "\n", "2", ".", " ", "i", "2", "\n", "3", ".",
    " ", "i", "3", "\n", "4", ")", " ", "i", "4", "\n", "5", ".", " ", "i",
    "5", "\n", "6", ".", " ", "i", "6", "\n", "7", ".", " ", "i", "7">>

\* Here are the insights:\n1. Rick drinks\n2. Morty worries
T_insightsNumbered2 ==
  <<"H", "e", "r", "e", " ", "a", "r", "e", " ", "t", "h", "e", " ", "i",
    "n", "s", "i", "g", "h", "t", "s", ":", "\n", "1", ".", " ", "R", "i",
    "c", "k", " ", "d", "r", "i", "n", "k", "s", "\n", "2", ".", " ", "M",
    "o", "r", "t", "y", " ", "w", "o", "r", "r", "i", "e", "s">>

\* - one\n* two\n\u2022 three
T_insightsBullets3 ==
  <<"-", " ", "o", "n", "e", "\n", "*", " ", "t", "w", "o", "\n", Bullet,
    " ", "t", "h", "r", "e", "e">>

\* Insights:\nfirst\n\nsecond\nthird
T_insightsLines ==
  <<"I", "n", "s", "i", "g", "h", "t", "s", ":", "\n", "f", "i", "r", "s",
    "t", "\n", "\n", "s", "e", "c", "o", "n", "d", "\n", "t", "h", "i", "r",
    "d">>

\* l1\nl2\nl3\nl4\nl5\nl6
T_insightsLines6 ==
  <<"l", "1", "\n", "l", "2", "\n", "l", "3", "\n", "l", "4", "\n", "l", "5",
    "\n", "l", "6">>

Samples ==
  {T_scenarioB, T_allEmpty, T_compatFull, T_compatPartial, T_compatNotLists,
   T_null, T_number, T_emptyArray, T_labeled, T_labeledEmptyGroup,
   T_labeledBullets, T_marked, T_paragraphs, T_paragraphsShort,
   T_paragraphsKeyword, T_sentences, T_bulletsOnly, T_evalFull,
   T_evalLocationFull, T_evalPartial, T_evalNonBoolean, T_evalChecksString,
   T_evalChecksNull, T_evalChecksArray, T_evalScoreHigh, T_evalScoreNegative,
   T_evalScoreText, T_evalScoreNull, T_evalInnerFence, T_fenceLate,
   T_insightsJson5, T_insightsJson2, T_insightsJson6, T_insightsObjects,
   T_insightsNullItem, T_insightsNumbered7, T_insightsNumbered2,
   T_insightsBullets3, T_insightsLines, T_insightsLines6}

\* What a model may put before and after a JSON object.
Prefixes ==
  {<<>>, <<Backtick, Backtick, Backtick, "j", "s", "o", "n", "\n">>,
   <<Backtick, Backtick, Backtick, "\n">>,
   <<"H", "e", "r", "e", " ", "i", "s", " ", "t", "h", "e", " ", "r", "e", "s", "u", "l", "t", ":", " ">>}

Suffixes ==
  {<<>>, <<"\n", Backtick, Backtick, Backtick>>,
   <<" ", "N", "o", "t", "e", " ", "t", "h", "e", " ", "{", "b", "r", "a", "c", "e", "s", "}", " ", "h", "e", "r", "e", ".">>,
   <<" ", "T", "h", "a", "n", "k", "s">>}

Bodies == {T_scenarioB, T_allEmpty, T_evalPartial, T_insightsJson2}

WrappedTexts == {p \o b \o s : p \in Prefixes, b \in Bodies, s \in Suffixes}

Texts == ShortTexts \cup ProseTexts \cup {T_prose300} \cup Samples \cup WrappedTexts

\* The characters and the location of the requests.
Rick ==
  [name |-> <<"R", "i", "c", "k">>, status |-> <<"A", "l", "i", "v", "e">>, species |-> <<"H", "u", "m", "a", "n">>,
   origin |-> <<"E", "a", "r", "t", "h">>, location |-> <<"C", "i", "t", "a", "d", "e", "l">>]

Morty ==
  [name |-> <<"M", "o", "r", "t", "y">>, status |-> <<"A", "l", "i", "v", "e">>, species |-> <<"H", "u", "m", "a", "n">>,
   origin |-> <<"E", "a", "r", "t", "h">>, location |-> <<"E", "a", "r", "t", "h">>]

Birdperson ==
  [name |-> <<"B", "i", "r", "d", "p", "e", "r", "s", "o", "n">>, status |-> <<"D", "e", "a", "d">>, species |-> <<"B", "i", "r", "d", "-", "P", "e", "r", "s", "o", "n">>,
   origin |-> <<"B", "i", "r", "d", " ", "W", "o", "r", "l", "d">>, location |-> <<"P", "l", "a", "n", "e", "t", " ", "S", "q", "u", "a", "n", "c", "h">>]

Citadel == [name |-> <<"C", "i", "t", "a", "d", "e", "l">>]

\* The pairs of characters of a compatibility request; the first one is the
\* subject of an insights request.
MainCast == <<Rick, Morty>>

Casts == {<<Rick, Morty>>, <<Birdperson, Rick>>, <<Rick, Birdperson>>}

(***************************************************************************)
(* The services as a state machine                                         *)
(***************************************************************************)

\* pc: "idle", "called" (the request is waiting for the language model) or
\* "done" (the handler has returned or raised); op: the handler called;
\* cast: the characters of the request; reply: what the data and model
\* services answer; out: what the handler hands to its caller; trace: for a
\* parse, the text it handed to JSON.parse (cleaned) and, for a compatibility
\* parse, the tiers it ran, where each field came from and the ranges of the
\* positional tier.
VARIABLES pc, op, cast, reply, out, trace

vars == <<pc, op, cast, reply, out, trace>>

\* The search service and the sync script: the search requests in flight,
\* the connections checked out of the pool, the rows of the entities table,
\* the vector last sent to the datastore, and the call of one function on its own.
VARIABLES search, checkedOut, store, sent, call

searchVars == <<search, checkedOut, store, sent, call>>

\* generateCharacterCompatibility step by step: its branches and its calls.
VARIABLES flow

\* The HTTP boundary, the batches and the page fetches of the sync script,
\* and the image analysis, each step by step.
VARIABLES http, batch, pages, vision

moreVars == <<http, batch, pages, vision>>

allVars == <<vars, searchVars, flow, moreVars>>

\* The handlers that fetch their characters before they call the model.
GenerateOps ==
  {"generateCharacterCompatibility", "generateCharacterCompatibilityText",
   "generateCharacterInsights", "generateLocationDescription",
   "generateCharacterDescription"}

EvaluateOps ==
  {"evaluateCharacterDescription", "evaluateCharacterDescriptionLenient",
   "evaluateLocationDescription", "evaluateLocationDescriptionLenient"}

Ops == GenerateOps \cup EvaluateOps \cup {"parseCompatibilityAnalysis"}

\* The answers: the model's raw content, a failure of the model call, or a
\* character the data service does not know.
ContentReply(text) == [kind |-> "content", text |-> text]
ErrorReply == [kind |-> "error", text |-> <<>>]
MissingReply == [kind |-> "missing", text |-> <<>>]

NoCast == <<>>
NoReply == [kind |-> "none", text |-> <<>>]
NoOut == [raised |-> FALSE, value |-> <<>>]
NoTrace == [cleaned |-> <<>>, source |-> NoSource, consulted |-> <<>>, parts |-> <<>>]

\* The trace of a compatibility parse that handed cleaned to JSON.parse.
TraceOf(parsed, cleaned) ==
  [cleaned |-> cleaned, source |-> parsed.source, consulted |-> parsed.consulted,
   parts |-> parsed.parts]

\* The trace of an evaluation parse that handed cleaned to JSON.parse.
Cleaned(cleaned) == [NoTrace EXCEPT !.cleaned = cleaned]

\* generateWithLLM: the content of the first choice, trimmed.
GenerateWithLLM(r) == Trim(r.text)

\* The search requests that may be in flight together.
MaxRequests == 2

SearchIds == 1..MaxRequests

\* A search request that no caller has made: no connection, no call issued.
IdleSearch ==
  [pc |-> "idle", query |-> <<>>, limit |-> 0, enhanced |-> <<>>, embedding |-> <<>>,
   conn |-> 0, releases |-> 0, log |-> <<>>, raised |-> FALSE, results |-> <<>>]

NoSearch == [r \in SearchIds |-> IdleSearch]

\* The entities table before the sync script has stored a row.
NoRows == {}

\* The fetches that generateCharacterCompatibility issues together, and the
\* image analyses it issues together once the fetches are in.
Fetches == {"character1", "character2", "location"}

Images == {"image1", "image2"}

\* generateCharacterCompatibility before a caller invokes it.
NoFlow ==
  [pc |-> "idle", fetch |-> [b \in Fetches |-> "idle"],
   image |-> [i \in Images |-> "idle"], log |-> <<>>, raised |-> FALSE, value |-> <<>>]

\* No request at the HTTP boundary: none received, no service operation
\* invoked, no response sent.
NoHttp ==
  [pc |-> "idle", endpoint |-> "none", body |-> [t |-> "undef", v |-> <<>>],
   invoked |-> <<>>, failed |-> FALSE, responses |-> <<>>]

NoBatch ==
  [pc |-> "idle", items |-> <<>>, size |-> 0, i |-> 0, status |-> <<>>,
   starts |-> <<>>, results |-> <<>>]

NoPages ==
  [pc |-> "idle", kind |-> "none", page |-> 0, hasNextPage |-> FALSE,
   all |-> <<>>, log |-> <<>>]

NoVision ==
  [pc |-> "idle", version |-> "none", name |-> <<>>, openai |-> FALSE,
   clients |-> <<>>, calls |-> <<>>, replies |-> <<>>, raised |-> FALSE,
   value |-> <<>>]

\* No function is being called on its own.
NoCall ==
  [fn |-> "none", arg |-> <<>>, reply |-> NoReply, made |-> FALSE, sentArg |-> <<>>,
   raised |-> FALSE, error |-> "", value |-> <<>>]

Init ==
  /\ pc = "idle"
  /\ op = "none"
  /\ cast = NoCast
  /\ reply = NoReply
  /\ out = NoOut
  /\ trace = NoTrace
  /\ search = NoSearch
  /\ checkedOut = {}
  /\ store = NoRows
  /\ sent = {}
  /\ call = NoCall
  /\ flow = NoFlow
  /\ http = NoHttp
  /\ batch = NoBatch
  /\ pages = NoPages
  /\ vision = NoVision

\* A caller invokes handler o; the services will answer r.
Request(o, c, r) ==
  /\ pc = "idle"
  /\ r.kind = "missing" => o \in GenerateOps
  /\ o = "parseCompatibilityAnalysis" => r.kind = "content"
  /\ pc' = "called"
  /\ op' = o
  /\ cast' = c
  /\ reply' = r
  /\ UNCHANGED <<out, trace, searchVars, flow, moreVars>>

\* The handler is done.
Finish(result, tr) ==
  /\ pc' = "done"
  /\ out' = result
  /\ trace' = tr
  /\ UNCHANGED <<op, cast, reply, searchVars, flow, moreVars>>

\* The handler is done with what a compatibility parse handed back.
FinishParsed(parsed, cleaned) ==
  Finish([raised |-> parsed.raised, value |-> parsed.result], TraceOf(parsed, cleaned))

\* The handler's catch block: an error raised while parsing gives the fallback.
FinishOrFallback(parsed, cleaned, fallback) ==
  IF parsed.raised THEN Finish(Returned(fallback), NoTrace)
  ELSE FinishParsed(parsed, cleaned)

\* generateCharacterCompatibility (list-valued parser).
GenerateCharacterCompatibility ==
  /\ pc = "called"
  /\ op = "generateCharacterCompatibility"
  /\ IF reply.kind = "missing" THEN Finish(Raised, NoTrace)
     ELSE IF reply.kind = "error"
     THEN Finish(Returned(GenerateFallbackCompatibility(cast[1], cast[2], Citadel)),
                 NoTrace)
     ELSE FinishOrFallback(ParseCompatibilityAnalysis(GenerateWithLLM(reply)),
                           CleanText(GenerateWithLLM(reply)),
                           GenerateFallbackCompatibility(cast[1], cast[2], Citadel))

\* The handler is done with what the string-valued parse handed back.
FinishText(parsed) == Finish(Returned(parsed.result), TraceOf(parsed, <<>>))

\* generateCharacterCompatibility (string-valued parser).
GenerateCharacterCompatibilityText ==
  /\ pc = "called"
  /\ op = "generateCharacterCompatibilityText"
  /\ IF reply.kind = "missing" THEN Finish(Raised, NoTrace)
     ELSE IF reply.kind = "error"
     THEN Finish(Returned(GenerateFallbackCompatibilityText(cast[1], cast[2], Citadel)),
                 NoTrace)
     ELSE FinishText(ParseCompatibilityAnalysisText(GenerateWithLLM(reply)))

\* parseCompatibilityAnalysis (list-valued) applied to a text as it is.
ParseCompatibilityAnalysisCall ==
  /\ pc = "called"
  /\ op = "parseCompatibilityAnalysis"
  /\ FinishParsed(ParseCompatibilityAnalysis(reply.text), CleanText(reply.text))

\* evaluateCharacterDescription with a default record in its catch block.
EvaluateCharacterDescriptionOrDefault ==
  /\ pc = "called"
  /\ op = "evaluateCharacterDescription"
  /\ IF reply.kind = "error"
     THEN Finish(Returned(FallbackEvaluation(<<>>, RequiredChecks, RequiredQualityChecks)),
                 NoTrace)
     ELSE Finish(ParseEvaluationResponse(GenerateWithLLM(reply)),
                 Cleaned(Trim(GenerateWithLLM(reply))))

\* evaluateCharacterDescription of characterEvaluationService.js.
EvaluateCharacterDescription ==
  /\ pc = "called"
  /\ op = "evaluateCharacterDescription"
  /\ IF reply.kind = "error" THEN Finish(Raised, NoTrace)
     ELSE Finish(ParseEvaluationResponse(GenerateWithLLM(reply)),
                 Cleaned(Trim(GenerateWithLLM(reply))))

\* evaluateCharacterDescription of the lenient variant.
EvaluateCharacterDescriptionLenient ==
  /\ pc = "called"
  /\ op = "evaluateCharacterDescriptionLenient"
  /\ IF reply.kind = "error" THEN Finish(Raised, NoTrace)
     ELSE Finish(ParseEvaluationResponseLenient(GenerateWithLLM(reply)),
                 Cleaned(CleanText(GenerateWithLLM(reply))))

\* evaluateLocationDescription of characterInsightsService.js.
EvaluateLocationDescription ==
  /\ pc = "called"
  /\ op = "evaluateLocationDescription"
  /\ IF reply.kind = "error" THEN Finish(Raised, NoTrace)
     ELSE Finish(ParseLocationEvaluationResponse(GenerateWithLLM(reply)),
                 Cleaned(Trim(GenerateWithLLM(reply))))

\* evaluateLocationDescription of the lenient variant.
EvaluateLocationDescriptionLenient ==
  /\ pc = "called"
  /\ op = "evaluateLocationDescriptionLenient"
  /\ IF reply.kind = "error" THEN Finish(Raised, NoTrace)
     ELSE Finish(ParseLocationEvaluationResponseLenient(GenerateWithLLM(reply)),
                 Cleaned(CleanText(GenerateWithLLM(reply))))

\* generateCharacterInsights.
GenerateCharacterInsights ==
  /\ pc = "called"
  /\ op = "generateCharacterInsights"
  /\ IF reply.kind = "missing" THEN Finish(Raised, NoTrace)
     ELSE IF reply.kind = "error"
     THEN Finish(Returned(GenerateFallbackInsights(cast[1])), NoTrace)
     ELSE Finish(Returned(Slice(ParseInsights(GenerateWithLLM(reply)), InsightCount)),
                 NoTrace)

\* generateLocationDescription: the location fetched, the prompt composed,
\* and the description the model wrote returned with the location data; the
\* catch block logs the error of the model call and throws it again.
GenerateLocationDescription ==
  /\ pc = "called"
  /\ op = "generateLocationDescription"
  /\ IF reply.kind = "missing" THEN Finish(Raised, NoTrace)
     ELSE IF reply.kind = "error" THEN Finish(Raised, NoTrace)
     ELSE Finish(Returned([description |-> GenerateWithLLM(reply),
                           locationData |-> Citadel]), NoTrace)

\* generateCharacterDescription(characterId, true): the character fetched,
\* its image analysed, and the description the model wrote returned with
\* the character data; the catch block logs "using fallback" and throws the
\* error of the model call again.
GenerateCharacterDescription ==
  /\ pc = "called"
  /\ op = "generateCharacterDescription"
  /\ IF reply.kind = "missing" THEN Finish(Raised, NoTrace)
     ELSE IF reply.kind = "error" THEN Finish(Raised, NoTrace)
     ELSE Finish(Returned([description |-> GenerateWithLLM(reply),
                           characterData |-> cast[1]]), NoTrace)

\* The caller takes the outcome; the service is ready for the next request.
Respond ==
  /\ pc = "done"
  /\ pc' = "idle"
  /\ op' = "none"
  /\ cast' = NoCast
  /\ reply' = NoReply
  /\ out' = NoOut
  /\ trace' = NoTrace
  /\ UNCHANGED <<searchVars, flow, moreVars>>

\* The requests: every text with the main cast, and the failures with every cast.
Requests ==
  {<<MainCast, ContentReply(t)>> : t \in Texts}
    \cup (Casts \X {ErrorReply, MissingReply})

Next ==
  \/ \E o \in Ops, q \in Requests : Request(o, q[1], q[2])
  \/ GenerateCharacterCompatibility
  \/ GenerateCharacterCompatibilityText
  \/ ParseCompatibilityAnalysisCall
  \/ EvaluateCharacterDescription
  \/ EvaluateCharacterDescriptionLenient
  \/ EvaluateLocationDescription
  \/ EvaluateLocationDescriptionLenient
  \/ GenerateCharacterInsights
  \/ GenerateLocationDescription
  \/ GenerateCharacterDescription
  \/ Respond

Spec == Init /\ [][Next]_allVars

(***************************************************************************)
(* Properties                                                              *)
(***************************************************************************)

\* The handler o has finished.
Done(o) == pc = "done" /\ op = o

\* The language model answered with a text.
Answered == reply.kind = "content"

\* The text the handler hands to its parser.
Parsed == IF op = "parseCompatibilityAnalysis" THEN reply.text ELSE GenerateWithLLM(reply)

Fields == {"teamWork", "conflicts", "breaksFirst"}

\* Whether x is a list: a sequence, of any values.
IsList(x) == DOMAIN x = 1..Len(x)

\* C1: for every input string, parseCompatibilityAnalysis (list-valued)
\* returns without raising, and what it returns is a record that has
\* teamWork, conflicts and breaksFirst, each one a list.
C1_ParseReturnsThreeLists ==
  Done("parseCompatibilityAnalysis") =>
    /\ ~out.raised
    /\ DOMAIN out.value = Fields
    /\ \A f \in Fields : IsList(out.value[f])

\* C1 happens: on a text of whitespace only the JSON parse has thrown, no
\* tier has found an item, and the record holds three empty lists; and on a
\* single token likewise.
C1_Witness ==
  /\ Done("parseCompatibilityAnalysis")
  /\ reply.text \in {<<" ", "\n">>, <<"a">>}
  /\ ~out.raised
  /\ out.value = EmptyResult
  /\ trace.consulted = <<"json", "labeled", "paragraph", "positional">>

\* C2: parsing an evaluation response, whatever its text, never raises to
\* the caller of evaluateCharacterDescription or evaluateLocationDescription.
C2_EvaluationNeverRaises ==
  (pc = "done" /\ op \in EvaluateOps /\ Answered) => ~out.raised

\* The insights synthesized from the character's attributes.
Synthesized == {GenerateFallbackInsights(cast[1])[k] : k \in 1..InsightCount}

\* C3: generateCharacterInsights returns exactly 5 entries: the k < 5 items
\* parseInsights recovered come first, in their order, and synthesized
\* insights fill the rest.
C3_ExactlyFiveInsights ==
  (Done("generateCharacterInsights") /\ Answered) =>
    LET extracted == ParseInsights(Parsed)
        k == IF Len(extracted) < InsightCount THEN Len(extracted) ELSE InsightCount
    IN /\ Len(out.value) = InsightCount
       /\ SubSeq(out.value, 1, k) = SubSeq(extracted, 1, k)
       /\ \A i \in (k + 1)..InsightCount : out.value[i] \in Synthesized

\* C2 fails: the strict character parser has raised on a text that is no JSON.
C2_Witness ==
  /\ Done("evaluateCharacterDescription")
  /\ reply.text = <<"a">>
  /\ out.raised

\* C3 fails: from a text with two numbered items two insights are returned.
C3_Witness ==
  /\ Done("generateCharacterInsights")
  /\ reply.text = T_insightsNumbered2
  /\ Len(out.value) = 2

\* The handlers that parse with the list-valued parser.
ListOps == {"generateCharacterCompatibility", "parseCompatibilityAnalysis"}

CompatOps == ListOps \cup {"generateCharacterCompatibilityText"}

\* Whether a parsed JSON value matches the compatibility schema exactly: an
\* object of the three keys, each a list of strings.
MatchesCompatibilitySchema(val) ==
  /\ val.t = "obj"
  /\ Len(val.v) = 3
  /\ {val.v[k][1] : k \in 1..3} = {P_teamWork, P_conflicts, P_breaksFirst}
  /\ \A k \in 1..3 :
       /\ val.v[k][2].t = "arr"
       /\ \A i \in 1..Len(val.v[k][2].v) : val.v[k][2].v[i].t = "str"

\* C4: on valid JSON that matches the compatibility schema exactly, empty
\* lists included, the returned fields equal the parsed values and no
\* text-parsing tier is consulted.
C4_SchemaJsonReturnedAsParsed ==
  (pc = "done" /\ op \in ListOps /\ Answered) =>
    LET parse == JSONParse(Trim(Parsed))
    IN (parse.ok /\ MatchesCompatibilitySchema(parse.val)) =>
         /\ ~out.raised
         /\ out.value = [teamWork |-> Lookup(parse.val.v, P_teamWork).v,
                         conflicts |-> Lookup(parse.val.v, P_conflicts).v,
                         breaksFirst |-> Lookup(parse.val.v, P_breaksFirst).v]
         /\ trace.consulted = <<"json">>

\* C4 fails: on the schema's JSON with three empty lists every text tier
\* has run and the lists hold fragments of the JSON text.
C4_Witness ==
  /\ Done("generateCharacterCompatibility")
  /\ reply.text = T_allEmpty
  /\ trace.consulted = <<"json", "labeled", "paragraph", "positional">>
  /\ Len(out.value.teamWork) = 1

\* The strategies in the order of the cascade.
Cascade == <<"json", "labeled", "paragraph", "positional">>

Rank(tier) == CHOOSE i \in 1..Len(Cascade) : Cascade[i] = tier

\* C5: the strategies are consulted in the order JSON, labeled sections,
\* paragraph split, positional thirds, a later one only when the earlier
\* ones produced nothing, so that every field that was filled was filled by
\* the one strategy consulted last.
C5_OneStrategyInOrder ==
  (pc = "done" /\ op \in CompatOps /\ Answered) =>
    /\ trace.consulted # <<>>
    /\ \A i \in 1..(Len(trace.consulted) - 1) :
         Rank(trace.consulted[i]) < Rank(trace.consulted[i + 1])
    /\ \A f \in Fields :
         trace.source[f] \in {"none", trace.consulted[Len(trace.consulted)]}

\* C5 fails: the string-valued parser has kept two fields of the labeled
\* patterns and filled the third from the positional thirds.
C5_Witness ==
  /\ Done("generateCharacterCompatibilityText")
  /\ reply.text = T_labeledEmptyGroup
  /\ trace.source.teamWork = "labeled"
  /\ trace.source.conflicts = "positional"

\* The positional tier has run.
ReachedPositional ==
  \E i \in 1..Len(trace.consulted) : trace.consulted[i] = "positional"

\* C6: when the positional fallback is reached on a text of length L, the
\* ranges are [0,t), [t,2t) and [2t,L) with t = floor(L/3), their
\* concatenation is the text, and for L = 300 each has 100 characters.
C6_PositionalThirds ==
  (pc = "done" /\ op \in CompatOps /\ Answered /\ ReachedPositional) =>
    LET text == Parsed
        t == Len(text) \div 3
    IN /\ Len(trace.parts) = 3
       /\ trace.parts[1] = SubSeq(text, 1, t)
       /\ trace.parts[2] = SubSeq(text, t + 1, 2 * t)
       /\ trace.parts[3] = SubSeq(text, 2 * t + 1, Len(text))
       /\ trace.parts[1] \o trace.parts[2] \o trace.parts[3] = text
       /\ Len(text) = 300 => \A i \in 1..3 : Len(trace.parts[i]) = 100

\* C6 happens: the positional tier has cut 300 characters of prose into
\* three ranges of 100.
C6_Witness ==
  /\ Done("generateCharacterCompatibility")
  /\ reply.text = T_prose300
  /\ ReachedPositional
  /\ \A i \in 1..3 : Len(trace.parts[i]) = 100

\* The nesting depth after position j of the object opened at position open
\* (braces inside string literals are counted too).
DepthAfter(s, open, j) ==
  Cardinality({k \in open..j : s[k] = "{"}) - Cardinality({k \in open..j : s[k] = "}"})

\* The position of the brace that closes the object opened at open, or 0.
MatchingClose(s, open) ==
  FirstWhere(LAMBDA j : DepthAfter(s, open, j) = 0, open + 1, Len(s))

\* The first bracket-matched object of s, or the empty text.
EmbeddedObject(s) ==
  LET open == FirstWhere(LAMBDA i : s[i] = "{", 1, Len(s))
      close == IF open = 0 THEN 0 ELSE MatchingClose(s, open)
  IN IF close = 0 THEN <<>> ELSE SubSeq(s, open, close)

\* The trimmed text is no JSON but holds a well-formed object.
HasEmbeddedObject(text) ==
  /\ ~JSONParse(Trim(text)).ok
  /\ EmbeddedObject(text) # <<>>
  /\ JSONParse(EmbeddedObject(text)).ok

\* C7: when the trimmed text is no JSON but holds a well-formed object in
\* prose, the first bracket-matched object is parsed and its fields are
\* returned, instead of the result of a text tier or of a failure.
C7_EmbeddedObjectParsed ==
  (/\ pc = "done"
   /\ op \in {"evaluateCharacterDescription", "evaluateCharacterDescriptionLenient",
              "generateCharacterCompatibility"}
   /\ Answered
   /\ HasEmbeddedObject(Parsed)) =>
    LET object == EmbeddedObject(Parsed)
    IN IF op = "generateCharacterCompatibility"
       THEN JsonTier(object).returned =>
              (out.value = JsonTier(object).result /\ trace.consulted = <<"json">>)
       ELSE ~CharacterEvaluationResult(JSONParse(object).val).raised =>
              out = CharacterEvaluationResult(JSONParse(object).val)

T_proseThenBraces ==
  <<"H", "e", "r", "e", " ", "i", "s", " ", "t", "h", "e", " ", "r", "e", "s", "u", "l", "t", ":", " ", "{", "\"", "c", "h", "e", "c", "k", "s", "\"", ":", "{", "\"", "n", "a", "m", "e", "M", "e", "n", "t", "i", "o", "n", "e", "d", "\"", ":", "t", "r", "u", "e", "}", ",", "\"", "a", "u", "t", "o", "S", "c", "o", "r", "e", "\"", ":", "7", "}", " ", "N", "o", "t", "e", " ", "t", "h", "e", " ", "{", "b", "r", "a", "c", "e", "s", "}", " ", "h", "e", "r", "e", ".">>

\* C7 fails: the lenient parser has matched from the first to the last brace
\* of an object followed by prose with braces, and returned its fallback record.
C7_Witness ==
  /\ Done("evaluateCharacterDescriptionLenient")
  /\ reply.text = T_proseThenBraces
  /\ ~out.raised
  /\ out.value.autoScore = JNum(<<"0">>)
  /\ StartsWith(out.value.explanation.v, FailedToParsePrefix)

\* Whether s ends with pat.
EndsWith(s, pat) == Len(s) >= Len(pat) /\ MatchAt(s, Len(s) - Len(pat) + 1, pat)

\* The trimmed text without one leading and one trailing fence.
StripOuterFences(trimmed) ==
  LET lead == IF MatchAtCI(trimmed, 1, FenceJson) THEN Len(FenceJson) ELSE Len(Fence)
      body == SubSeq(trimmed, SkipWs(trimmed, lead + 1), Len(trimmed))
  IN IF ~StartsWith(trimmed, Fence) THEN trimmed
     ELSE IF EndsWith(body, Fence) THEN Trim(SubSeq(body, 1, Len(body) - Len(Fence)))
     ELSE Trim(body)

\* C8: what is handed to JSON.parse is the trimmed text without at most one
\* leading and one trailing fence; every other fence stays in place, and a
\* text that does not start with a fence is handed over unchanged.
C8_OnlyOuterFencesRemoved ==
  (/\ pc = "done"
   /\ op \in ListOps \cup {"evaluateCharacterDescriptionLenient"}
   /\ Answered) =>
    trace.cleaned = StripOuterFences(Trim(Parsed))

\* C8 fails: the fences inside a string of the fenced JSON are gone too.
C8_Witness ==
  /\ Done("evaluateCharacterDescriptionLenient")
  /\ reply.text = T_evalInnerFence
  /\ ~Includes(trace.cleaned, Fence)
  /\ out.value.explanation.v = <<"u", "s", "e", " ", "j", "s", "b", "l", "o", "c", "k", "s">>

\* The enumerated fields of an evaluation, by handler.
ChecksOf(o) ==
  IF o \in {"evaluateCharacterDescription", "evaluateCharacterDescriptionLenient"}
  THEN RequiredChecks
  ELSE LocationPromptChecks

QualityChecksOf(o) ==
  IF o \in {"evaluateCharacterDescription", "evaluateCharacterDescriptionLenient"}
  THEN RequiredQualityChecks
  ELSE LocationPromptQualityChecks

\* Every field of keys is in record x, and is false where given lacks it.
PresentFalseWhenAbsent(x, given, keys) ==
  \A k \in 1..Len(keys) :
    /\ ReadProp(x, keys[k]).t # "undef"
    /\ GetProp(given, keys[k]).t = "undef" =>
         (ReadProp(x, keys[k]).t = "bool" /\ ~ReadProp(x, keys[k]).v)

\* C9: a successfully parsed evaluation holds every enumerated checks and
\* qualityChecks field of its kind, false where the JSON lacks it; autoScore
\* is 0 and explanation is the placeholder where the JSON lacks them.
C9_EnumeratedFieldsPresent ==
  (/\ pc = "done"
   /\ op \in {"evaluateCharacterDescription", "evaluateLocationDescription"}
   /\ Answered
   /\ ~out.raised) =>
    LET parsed == JSONParse(Trim(Parsed)).val
    IN /\ PresentFalseWhenAbsent(out.value.checks, GetProp(parsed, P_checks), ChecksOf(op))
       /\ PresentFalseWhenAbsent(out.value.qualityChecks, GetProp(parsed, P_qualityChecks),
                                 QualityChecksOf(op))
       /\ GetProp(parsed, P_autoScore).t = "undef" => out.value.autoScore = JNum(<<"0">>)
       /\ GetProp(parsed, P_explanation).t = "undef" =>
            out.value.explanation = JStr(NoExplanation)

\* C9 fails: the location evaluation of an empty object has no
\* totalResidentsMentioned and no quality check at all.
C9_Witness ==
  /\ Done("evaluateLocationDescription")
  /\ reply.text = <<"{", "}">>
  /\ ~out.raised
  /\ ReadProp(out.value.checks, P_totalResidentsMentioned).t = "undef"
  /\ out.value.qualityChecks = JObj(<<>>)

\* Every field of keys that record x holds is a boolean.
BooleanWherePresent(x, keys) ==
  \A k \in 1..Len(keys) : ReadProp(x, keys[k]).t \in {"undef", "bool"}

\* C10: in every evaluation the services return, each enumerated checks and
\* qualityChecks field is a boolean, whatever its type in the JSON.
C10_CheckFieldsBoolean ==
  (pc = "done" /\ op \in EvaluateOps /\ Answered /\ ~out.raised) =>
    /\ BooleanWherePresent(out.value.checks, ChecksOf(op))
    /\ BooleanWherePresent(out.value.qualityChecks, QualityChecksOf(op))

\* C10 fails: the character evaluation has returned the string the JSON
\* gave for nameMentioned.
C10_Witness ==
  /\ Done("evaluateCharacterDescription")
  /\ reply.text = T_evalNonBoolean
  /\ ~out.raised
  /\ ReadProp(out.value.checks, P_nameMentioned).t = "str"

\* Whether the lexeme of a JSON number denotes a value in the closed range
\* [0, 10]: a zero, or without sign and exponent one integer digit, or 10
\* with a fraction of zeros (the texts hold no exponents).
InScoreRange(lex) ==
  \/ IsZeroLexeme(lex)
  \/ /\ \A k \in 1..Len(lex) : lex[k] \notin {"-", "e", "E"}
     /\ \/ SkipDigits(lex, 1) = 2
        \/ /\ SubSeq(lex, 1, SkipDigits(lex, 1) - 1) = <<"1", "0">>
           /\ \A k \in (SkipDigits(lex, 1) + 1)..Len(lex) : lex[k] = "0"

\* C11: in every evaluation the services return, autoScore is a number in
\* the closed range [0, 10], whatever autoScore was in the JSON.
C11_AutoScoreInRange ==
  (pc = "done" /\ op \in EvaluateOps /\ Answered /\ ~out.raised) =>
    /\ out.value.autoScore.t = "num"
    /\ InScoreRange(out.value.autoScore.v)

\* C11 fails: the character evaluation has returned the 42 the JSON gave.
C11_Witness ==
  /\ Done("evaluateCharacterDescription")
  /\ reply.text = T_evalScoreHigh
  /\ ~out.raised
  /\ out.value.autoScore = JNum(<<"4", "2">>)

(***************************************************************************)
(* Search service: query enhancement                                       *)
(***************************************************************************)
\* /\s+/ at i: the position after the run of whitespace that starts at i, or 0.
WsSepEnd(s, i) == IF IsWs(s[i]) THEN SkipWs(s, i) ELSE 0

\* trimmedQuery.split(/\s+/).filter(word => word.length > 0).
Words(trimmedQuery) ==
  Filter(Split(trimmedQuery, LAMBDA i : WsSepEnd(trimmedQuery, i)),
         LAMBDA word : Len(word) > 0)

\* The same test with the bound on the words off by one.
IsShortQueryOffByOne(query) ==
  Len(Words(Trim(query))) < 2 /\ Len(Trim(query)) > 0

\* words.length <= 2 && trimmedQuery.length > 0.
IsShortQuery(query) ==
  Len(Words(Trim(query))) <= 2 /\ Len(Trim(query)) > 0

\* What a function hands back: a value, or the error it throws.
Value(v) == [raised |-> FALSE, error |-> "", value |-> v]

Throws(error) == [raised |-> TRUE, error |-> error, value |-> <<>>]

\* enhanceQueryWithLLM when the model answers r: whether it calls the model,
\* the query it sends, and the text it returns or the error it rethrows.
EnhanceQueryWithLLM(query, r) ==
  IF IsShortQuery(query)
  THEN [made |-> TRUE, sentArg |-> Trim(query),
        out |-> IF r.kind = "content" THEN Value(Trim(GenerateWithLLM(r)))
                ELSE Throws("UpstreamCallFailure")]
  ELSE [made |-> FALSE, sentArg |-> <<>>, out |-> Value(query)]

(***************************************************************************)
(* Embedding generator: generateQueryEmbedding of the search service and   *)
(* generateEmbedding of the sync script.  A vector is the sequence of its  *)
(* numbers; the code never looks at a number of a vector.                  *)
(***************************************************************************)
P_embeddings == <<"e", "m", "b", "e", "d", "d", "i", "n", "g", "s">>

P_values == <<"v", "a", "l", "u", "e", "s">>

P_data == <<"d", "a", "t", "a">>

P_model == <<"m", "o", "d", "e", "l">>

\* The answers of the embedding capability: a response, or a failed call.
EmbedReply(response) == [kind |-> "response", response |-> response]

EmbedError == [kind |-> "error", response |-> JUndef]

\* x.length > 0 for the values a response holds: arrays and strings have a
\* length, undefined > 0 is false.
HasLength(x) == x.t \in {"arr", "str"} /\ Len(x.v) > 0

\* x[0] of an array or a string.
First(x) == IF x.t = "str" THEN JStr(<<x.v[1]>>) ELSE x.v[1]

\* Object.values(x): the values of an object in property order, the
\* characters of a string, nothing for the other primitives.
ObjectValues(x) ==
  CASE x.t = "obj" -> [k \in 1..Len(x.v) |-> x.v[k][2]]
    [] x.t = "str" -> [k \in 1..Len(x.v) |-> JStr(<<x.v[k]>>)]
    [] OTHER -> <<>>

\* Object.values(emb).find(v => Array.isArray(v)): its index, or 0.
FindArray(vals) == FirstWhere(LAMBDA k : IsArray(vals[k]), 1, Len(vals))

\* The first array among the property values tried before emb.values.
ExtractFromAnyArrayFirst(emb) ==
  IF emb.t \in {"null", "undef"} THEN Throws("TypeError")
  ELSE IF IsArray(emb) THEN Value(emb.v)
  ELSE IF FindArray(ObjectValues(emb)) # 0
  THEN Value(ObjectValues(emb)[FindArray(ObjectValues(emb))].v)
  ELSE IF Truthy(GetProp(emb, P_values)) /\ IsArray(GetProp(emb, P_values))
  THEN Value(GetProp(emb, P_values).v)
  ELSE Throws("Could not extract embedding values from response")

\* The array of the first embedding emb: emb.values, emb itself, or the first
\* array among its property values; reading a property of null or undefined
\* is a TypeError.
ExtractFrom(emb) ==
  IF emb.t \in {"null", "undef"} THEN Throws("TypeError")
  ELSE IF Truthy(GetProp(emb, P_values)) /\ IsArray(GetProp(emb, P_values))
  THEN Value(GetProp(emb, P_values).v)
  ELSE IF IsArray(emb) THEN Value(emb.v)
  ELSE IF FindArray(ObjectValues(emb)) # 0
  THEN Value(ObjectValues(emb)[FindArray(ObjectValues(emb))].v)
  ELSE Throws("Could not extract embedding values from response")

\* The extraction of the embedding from the response of the capability.
ExtractEmbedding(response) ==
  IF response.t \in {"null", "undef"} THEN Throws("TypeError")
  ELSE IF Truthy(GetProp(response, P_embeddings))
          /\ HasLength(GetProp(response, P_embeddings))
  THEN ExtractFrom(First(GetProp(response, P_embeddings)))
  ELSE Throws("No embeddings found in response")

\* The dimensions of the embedding column and of the truncation.
EmbeddingDim == 768

\* The last EmbeddingDim numbers instead of the first.
TruncateTail(embedding) ==
  IF Len(embedding) > EmbeddingDim
  THEN SubSeq(embedding, Len(embedding) - EmbeddingDim + 1, Len(embedding))
  ELSE embedding

\* embedding.length > 768 ? embedding.slice(0, 768) : embedding.
Truncate(embedding) ==
  IF Len(embedding) > EmbeddingDim THEN SubSeq(embedding, 1, EmbeddingDim)
  ELSE embedding

\* The vector of an extraction, truncated; its error is handed on.
Truncated(extracted) ==
  IF extracted.raised THEN extracted ELSE Value(Truncate(extracted.value))

\* generateEmbedding of the sync script, and generateQueryEmbedding once the
\* query is enhanced: the capability answers e; every error is rethrown.
GenerateEmbedding(e) ==
  IF e.kind = "error" THEN Throws("UpstreamCallFailure")
  ELSE Truncated(ExtractEmbedding(e.response))

(***************************************************************************)
(* Inputs of the search service and of the sync script                     *)
(***************************************************************************)
\* The longest query.
MaxQueryLen == 5

QueryAlphabet == {"a", " ", "\n"}

\* Every query over QueryAlphabet of at most MaxQueryLen characters.
Queries == UNION {[1..n -> QueryAlphabet] : n \in 0..MaxQueryLen}

\* The answers of the model to the expansion prompt: a text with white space
\* around it, an empty text, a failed call.
T_expansion == <<" ", "a", " ", "a", " ", "a", " ", "a", "\n">>

ExpansionReplies == {ContentReply(T_expansion), ContentReply(<<>>), ErrorReply}

\* The vector 1, 2, ..., n: every number tells its place.
Counting(n) == [i \in 1..n |-> i]

\* The lengths of the vectors the capability answers with: none, one, the
\* dimensions of the column and its neighbours, and the native 3072.
VectorLengths ==
  {0, 1, EmbeddingDim - 1, EmbeddingDim, EmbeddingDim + 1, 4 * EmbeddingDim}

\* An array that is not the embedding.
Decoy == JArr(<<9, 9, 9>>)

\* The response whose first embedding is emb.
ResponseOf(emb) == JObj(<<<<P_embeddings, JArr(<<emb>>)>>>>)

\* The shapes of a first embedding that holds the vector v.
ShapesOf(v) ==
  {JObj(<<<<P_values, JArr(v)>>>>),
   JArr(v),
   JObj(<<<<P_data, JArr(v)>>>>),
   JObj(<<<<P_model, JStr(<<"a">>)>>, <<P_values, JStr(<<"a">>)>>, <<P_data, JArr(v)>>>>),
   JObj(<<<<P_data, Decoy>>, <<P_values, JArr(v)>>>>),
   JObj(<<<<P_model, JNull>>, <<P_data, JArr(v)>>, <<P_text, Decoy>>>>)}

\* The responses without a vector: no embeddings property, no embedding, an
\* empty object, null, a string, a string for the list, no response object.
EmptyResponses ==
  {JObj(<<>>), JObj(<<<<P_embeddings, JArr(<<>>)>>>>), ResponseOf(JObj(<<>>)),
   ResponseOf(JNull), ResponseOf(JStr(<<"a", "a">>)),
   JObj(<<<<P_embeddings, JStr(<<"a", "a">>)>>>>), JUndef}

\* The responses that hold the vector v: every shape, and a second embedding
\* after the first.
ResponsesOf(v) ==
  {ResponseOf(emb) : emb \in ShapesOf(v)}
    \cup {JObj(<<<<P_embeddings, JArr(<<JObj(<<<<P_values, JArr(v)>>>>), Decoy>>)>>>>)}

Responses ==
  EmptyResponses \cup UNION {ResponsesOf(Counting(n)) : n \in VectorLengths}

EmbedReplies == {EmbedReply(response) : response \in Responses} \cup {EmbedError}

(***************************************************************************)
(* One function called on its own                                          *)
(***************************************************************************)
\* The record of a call: the function, its argument, the answer of the
\* service it called, and what it handed back.
CallOf(fn, arg, answer, made, sentArg, result) ==
  [fn |-> fn, arg |-> arg, reply |-> answer, made |-> made, sentArg |-> sentArg,
   raised |-> result.raised, error |-> result.error, value |-> result.value]

\* enhanceQueryWithLLM(query); the model answers r when it is called.
EnhanceQueryWithLLMCall(query, r) ==
  /\ call.fn = "none"
  /\ ~IsShortQuery(query) => r = ErrorReply
  /\ call' = CallOf("enhanceQueryWithLLM", query,
                    IF IsShortQuery(query) THEN r ELSE NoReply,
                    EnhanceQueryWithLLM(query, r).made,
                    EnhanceQueryWithLLM(query, r).sentArg,
                    EnhanceQueryWithLLM(query, r).out)
  /\ UNCHANGED <<vars, search, checkedOut, store, sent, flow, moreVars>>

\* generateEmbedding(text); the capability answers e.
GenerateEmbeddingCall(e) ==
  /\ call.fn = "none"
  /\ call' = CallOf("generateEmbedding", <<>>, e, TRUE, <<>>, GenerateEmbedding(e))
  /\ UNCHANGED <<vars, search, checkedOut, store, sent, flow, moreVars>>

\* llm-config.json as the README of the configuration shows it: one entry
\* per template name, each with its model.
LlmConfig ==
  {[template_name |-> "location_description_generation", model |-> "openai/gpt-4"]}

\* The template names the services pass to generateWithLLM: the one of the
\* location descriptions, and the one of the insights, which is still to be
\* added to the configuration.
TemplateNames == {"location_description_generation", "character_insights_generation"}

\* getConfigByTemplateName: the entry of the name, or an error when the
\* configuration has none.
GetConfigByTemplateName(templateName) ==
  IF \E c \in LlmConfig : c.template_name = templateName
  THEN Value(CHOOSE c \in LlmConfig : c.template_name = templateName)
  ELSE Throws("ConfigurationNotFound")

\* getModelForTemplate: the model of the entry; the error of a missing entry
\* is thrown again.
GetModelForTemplate(templateName) ==
  LET config == GetConfigByTemplateName(templateName)
  IN IF config.raised THEN config ELSE Value(config.value.model)

\* generateWithLLM(templateConfigName) when the model answers r: the model of
\* the template is read before the try block, so its error leaves without a
\* completion call; the call itself returns the trimmed content or throws the
\* error of the provider again.
GenerateWithLLMFor(templateConfigName, r) ==
  LET model == GetModelForTemplate(templateConfigName)
  IN IF model.raised
     THEN [made |-> FALSE, out |-> Throws(model.error)]
     ELSE [made |-> TRUE,
           out |-> IF r.kind = "content" THEN Value(GenerateWithLLM(r))
                   ELSE Throws("UpstreamCallFailure")]

\* generateWithLLM(templateConfigName); the model answers r when it is called.
GenerateWithLLMCall(templateConfigName, r) ==
  LET done == GenerateWithLLMFor(templateConfigName, r)
  IN /\ call.fn = "none"
     /\ call' = CallOf("generateWithLLM", templateConfigName,
                       IF done.made THEN r ELSE NoReply, done.made, <<>>, done.out)
     /\ UNCHANGED <<vars, search, checkedOut, store, sent, flow, moreVars>>

\* The pieces of the section texts: an item longer than the threshold, a
\* short item, and a stoplist word longer than the threshold.
LongItem == <<"a", "a", "a", "a", "a", "a", "a", "a", "a", "a", "a">>
ShortItem == <<"a", "b">>
StopItem == <<"A", "d", "d", "i", "t", "i", "o", "n", "a", "l", "l", "y">>

SectionItems == {LongItem, ShortItem, StopItem}

\* What stands between two pieces: a bullet marker or a number marker at the
\* start of a line, the end of a sentence, a blank.
SectionSeparators ==
  {<<"\n", "-", " ">>, <<"\n", "1", ".", " ">>, <<".", " ">>, <<" ">>}

\* The section texts handed to parseTextToArray: up to three pieces.
SectionTexts ==
  {<<>>} \cup SectionItems
    \cup {a \o x \o b : a \in SectionItems, x \in SectionSeparators, b \in SectionItems}
    \cup {a \o x \o b \o y \o c :
            a \in SectionItems, x \in SectionSeparators, b \in SectionItems,
            y \in SectionSeparators, c \in SectionItems}

\* parseTextToArray(text).
ParseTextToArrayCall(text) ==
  /\ call.fn = "none"
  /\ call' = CallOf("parseTextToArray", text, NoReply, FALSE, <<>>,
                    Value(StrValues(ParseTextToArray(text))))
  /\ UNCHANGED <<vars, search, checkedOut, store, sent, flow, moreVars>>

\* The caller takes what the function handed back.
ReturnCall ==
  /\ call.fn # "none"
  /\ call' = NoCall
  /\ UNCHANGED <<vars, search, checkedOut, store, sent, flow, moreVars>>

FunctionNext ==
  \/ \E query \in Queries, r \in ExpansionReplies : EnhanceQueryWithLLMCall(query, r)
  \/ \E e \in EmbedReplies : GenerateEmbeddingCall(e)
  \/ \E text \in SectionTexts : ParseTextToArrayCall(text)
  \/ \E templateConfigName \in TemplateNames, r \in ExpansionReplies :
       GenerateWithLLMCall(templateConfigName, r)
  \/ ReturnCall

FunctionSpec == Init /\ [][FunctionNext]_allVars

(***************************************************************************)
(* The datastore: the entities table of setup-database.js with its vector  *)
(* column and its IVFFlat index, as the queries of the services see it     *)
(***************************************************************************)
\* The sum of u[i] * v[i] over the places in S.
RECURSIVE SumProducts(_, _, _)
SumProducts(u, v, S) ==
  IF S = {} THEN 0
  ELSE LET i == CHOOSE j \in S : TRUE
       IN u[i] * v[i] + SumProducts(u, v, S \ {i})

\* The inner product of two vectors of the same length.
Dot(u, v) == SumProducts(u, v, {i \in 1..Len(u) : u[i] # 0 /\ v[i] # 0})

\* The whole root of a square.
Root(m) == CHOOSE n \in 0..m : n * n = m

\* The length of a vector (the vectors of the model have whole lengths).
Norm(u) == Root(Dot(u, u))

\* The fraction 1 - dot / (lu * lq) for two vectors of lengths lu and lq.
DistanceOf(dot, lu, lq) == [num |-> lu * lq - dot, den |-> lu * lq]

\* embedding <=> $1::vector, the cosine distance 1 - u.q / (|u| |q|), as a
\* fraction.
CosineDistance(u, q) == DistanceOf(Dot(u, q), Norm(u), Norm(q))

\* d <= e for two distances.
AtMost(d, e) == d.num * e.den <= e.num * d.den

\* A row of the entities table; the embedding column may be NULL.
Row(id, entityType, embedding) ==
  [id |-> id, entity_type |-> entityType, embedding |-> embedding]

Null == [null |-> TRUE, v |-> <<>>]

Vector(v) == [null |-> FALSE, v |-> v]

\* The table keyed by id alone: the row takes the place of every row of its id.
UpsertById(rows, row) == {x \in rows : x.id # row.id} \cup {row}

\* INSERT ... ON CONFLICT (id, entity_type) DO UPDATE.
Upsert(rows, row) ==
  {x \in rows : ~(x.id = row.id /\ x.entity_type = row.entity_type)} \cup {row}

\* Whether the column embedding vector(768) takes the vector.
FitsColumn(v) == Len(v) = EmbeddingDim

\* WHERE embedding IS NOT NULL.
WithEmbedding(rows) == {x \in rows : ~x.embedding.null}

\* Whether the ranking query fails on the rows it reads: a vector needs a
\* dimension, and <=> needs both vectors of the same dimensions.
QueryRejected(rows, q) ==
  \/ Len(q) = 0
  \/ rows # {} /\ ~FitsColumn(q)

\* The rows with the distance of each to the query vector q, as the ranking
\* query computes it for the rows it visits.
Measured(rows, q) ==
  {[row |-> x, distance |-> CosineDistance(x.embedding.v, q)] : x \in rows}

\* The measured rows in descending order of distance.
FarthestFirst(measured, n) ==
  {ranking \in [1..n -> measured] :
     /\ \A i, j \in 1..n : i # j => ranking[i] # ranking[j]
     /\ \A i \in 1..(n - 1) : AtMost(ranking[i + 1].distance, ranking[i].distance)
     /\ \A x \in measured :
          (\A i \in 1..n : ranking[i] # x) => AtMost(x.distance, ranking[n].distance)}

\* ORDER BY embedding <=> $1::vector LIMIT n over the measured rows, n at
\* most their number: every order of the n nearest rows that ascends in
\* distance (rows at the same distance come in any order).
NearestFirst(measured, n) ==
  {ranking \in [1..n -> measured] :
     /\ \A i, j \in 1..n : i # j => ranking[i] # ranking[j]
     /\ \A i \in 1..(n - 1) : AtMost(ranking[i].distance, ranking[i + 1].distance)
     /\ \A x \in measured :
          (\A i \in 1..n : ranking[i] # x) => AtMost(ranking[n].distance, x.distance)}

\* The answers of the ranking query of semanticSearch over the rows its
\* scan visits: the IVFFlat index of the table visits the rows of the lists
\* it probes, a sequential scan visits every row.
RankingsOf(measured, limit) ==
  NearestFirst(measured,
               IF limit < Cardinality(measured) THEN limit ELSE Cardinality(measured))

\* result.rows.map: the row as a search result with its distance and the
\* type of its variant (the attributes of the row are copied as they are).
ResultOf(m) == [id |-> m.row.id, type |-> m.row.entity_type, distance |-> m.distance]

ResultsOf(ranking) == [i \in 1..Len(ranking) |-> ResultOf(ranking[i])]

(***************************************************************************)
(* semanticSearch, one action for each stretch between two awaits, and the *)
(* sync script, one action for each entity it processes and stores         *)
(***************************************************************************)
\* The vector head followed by zeros, n numbers in all.
Padded(head, n) == [i \in 1..n |-> IF i <= Len(head) THEN head[i] ELSE 0]

\* The response of the documented format for the vector v.
ValuesResponse(v) == ResponseOf(JObj(<<<<P_values, JArr(v)>>>>))

\* The answers of the capability to the sync script: two vectors of the
\* dimensions of the column, a shorter vector, a failed call.
SyncEmbedReplies ==
  {EmbedReply(ValuesResponse(Padded(<<5, 0>>, EmbeddingDim))),
   EmbedReply(ValuesResponse(Padded(<<3, 4>>, EmbeddingDim))),
   EmbedReply(ValuesResponse(Padded(<<3, 4>>, EmbeddingDim - 1))),
   EmbedError}

\* The answers of the capability to a search: two vectors of the dimensions
\* of the column, a longer and a shorter vector, a response without
\* embedding, a failed call.
SearchEmbedReplies ==
  {EmbedReply(ValuesResponse(Padded(<<5, 0>>, EmbeddingDim))),
   EmbedReply(ValuesResponse(Padded(<<4, 3>>, EmbeddingDim))),
   EmbedReply(ValuesResponse(Padded(<<4, 3>>, EmbeddingDim) \o <<7, 7>>)),
   EmbedReply(ValuesResponse(Padded(<<4, 3>>, EmbeddingDim - 1))),
   EmbedReply(JObj(<<>>)),
   EmbedError}

\* The queries of the searches: one word and three words.
SearchQueries == {<<"a">>, <<"a", " ", "a", " ", "a">>}

\* The answers of the model to the expansion prompt of a search.
SearchExpansionReplies == {ContentReply(T_expansion), ErrorReply}

\* The limits the endpoint passes on: positive integers.
Limits == {1, 2}

\* The ids of the entities of the sync: two characters and a location that
\* shares its id with a character.
CharacterIds == {1, 2}

LocationIds == {1}

\* A call that failed issued a second time before its error is handled.
LoggedWithRetry(s, name, arg, ok) ==
  [s EXCEPT !.log = IF ok THEN Append(@, [call |-> name, arg |-> arg, ok |-> ok])
                    ELSE @ \o <<[call |-> name, arg |-> arg, ok |-> FALSE],
                                [call |-> name, arg |-> arg, ok |-> FALSE]>>]

\* s with one more call in its log: the service called, what it was sent,
\* and whether the call came back without error.
Logged(s, name, arg, ok) ==
  [s EXCEPT !.log = Append(@, [call |-> name, arg |-> arg, ok |-> ok])]

\* The connection released only where the search returns.
ReleaseUnlessThrown(s) ==
  IF s.raised THEN s ELSE [s EXCEPT !.releases = @ + 1]

\* finally { client.release() }.
Release(s) == [s EXCEPT !.releases = @ + 1]

\* The request r leaves semanticSearch as s: its return or its catch and
\* rethrow, then the finally block.
Leave(r, s) ==
  /\ search' = [search EXCEPT ![r] = Release(s)]
  /\ checkedOut' =
       IF Release(s).releases > s.releases THEN checkedOut \ {s.conn} ELSE checkedOut

\* The error of a stage is rethrown.
Thrown(s) == [s EXCEPT !.pc = "done", !.raised = TRUE]

\* return { query, results, total }.
ReturnedResults(s, results) == [s EXCEPT !.pc = "done", !.results = results]

\* The least connection of the pool that is not checked out.
FreeConnection ==
  CHOOSE c \in SearchIds \ checkedOut : \A d \in SearchIds \ checkedOut : c <= d

\* semanticSearch(query, limit) up to its first await: pool.connect().
SemanticSearch(r, query, limit) ==
  /\ search[r].pc = "idle"
  /\ search' = [search EXCEPT ![r] =
                  [IdleSearch EXCEPT !.pc = "connected", !.query = query,
                                     !.limit = limit, !.conn = FreeConnection,
                                     !.log = <<[call |-> "connect", arg |-> <<>>,
                                                ok |-> TRUE]>>]]
  /\ checkedOut' = checkedOut \cup {FreeConnection}
  /\ UNCHANGED <<vars, store, sent, call, flow, moreVars>>

\* pool.connect() fails: semanticSearch rejects before its try block, with
\* no connection.
ConnectFails(r, query, limit) ==
  /\ search[r].pc = "idle"
  /\ search' = [search EXCEPT ![r] =
                  [IdleSearch EXCEPT !.pc = "done", !.query = query, !.limit = limit,
                                     !.raised = TRUE,
                                     !.log = <<[call |-> "connect", arg |-> <<>>,
                                                ok |-> FALSE]>>]]
  /\ UNCHANGED <<vars, checkedOut, store, sent, call, flow, moreVars>>

\* The query as given embedded in place of the enhancement that failed.
EnhancedOrGiven(r, s, e) ==
  /\ search' = [search EXCEPT ![r] =
                  [s EXCEPT !.pc = "enhanced",
                            !.enhanced = IF e.out.raised THEN s.query ELSE e.out.value]]
  /\ UNCHANGED checkedOut

\* The request after enhanceQueryWithLLM came back as e.
Enhanced(r, s, e) ==
  IF e.out.raised THEN Leave(r, Thrown(s))
  ELSE /\ search' = [search EXCEPT ![r] =
                       [s EXCEPT !.pc = "enhanced", !.enhanced = e.out.value]]
       /\ UNCHANGED checkedOut

\* generateQueryEmbedding up to the embedding call: enhanceQueryWithLLM, the
\* model answering answer when it is called.
EnhanceQuery(r, answer) ==
  /\ search[r].pc = "connected"
  /\ ~IsShortQuery(search[r].query) => answer = ErrorReply
  /\ Enhanced(r,
              IF EnhanceQueryWithLLM(search[r].query, answer).made
              THEN Logged(search[r], "generate",
                          EnhanceQueryWithLLM(search[r].query, answer).sentArg,
                          ~EnhanceQueryWithLLM(search[r].query, answer).out.raised)
              ELSE search[r],
              EnhanceQueryWithLLM(search[r].query, answer))
  /\ UNCHANGED <<vars, store, sent, call, flow, moreVars>>

\* The ranking queried although the embedding failed.
EmbeddedAnyway(r, s, g) ==
  /\ search' = [search EXCEPT ![r] = [s EXCEPT !.pc = "embedded", !.embedding = g.value]]
  /\ UNCHANGED checkedOut

\* The request after the extraction and truncation came back as g.
Embedded(r, s, g) ==
  IF g.raised THEN Leave(r, Thrown(s))
  ELSE /\ search' = [search EXCEPT ![r] =
                       [s EXCEPT !.pc = "embedded", !.embedding = g.value]]
       /\ UNCHANGED checkedOut

\* generateQueryEmbedding from the embedding call on: embedContent with the
\* enhanced query, the capability answering e, extraction and truncation.
EmbedQuery(r, e) ==
  /\ search[r].pc = "enhanced"
  /\ Embedded(r, Logged(search[r], "embed", search[r].enhanced, e.kind # "error"),
              GenerateEmbedding(e))
  /\ UNCHANGED <<vars, store, sent, call, flow, moreVars>>

\* The vector last sent to the datastore, by the sync script or by a
\* search: who sent it and how many numbers it holds.
Sent(by, v) == {[by |-> by, dims |-> Len(v)]}

\* semanticSearch from client.query on: the ranking query, the index scan
\* visiting the rows scanned, the datastore failing when outage; then the
\* results, the return or the rethrow, and the release.
RankQuery(r, scanned, outage) ==
  /\ search[r].pc = "embedded"
  /\ scanned \subseteq WithEmbedding(store)
  /\ sent' = Sent("search", search[r].embedding)
  /\ IF outage \/ QueryRejected(WithEmbedding(store), search[r].embedding)
     THEN /\ scanned = {}
          /\ Leave(r, Thrown(Logged(search[r], "query",
                                    [vector |-> search[r].embedding,
                                     limit |-> search[r].limit], FALSE)))
     ELSE \E ranking \in RankingsOf(Measured(scanned, search[r].embedding),
                                      search[r].limit) :
            Leave(r, ReturnedResults(
                       Logged(search[r], "query",
                              [vector |-> search[r].embedding, limit |-> search[r].limit],
                              TRUE),
                       ResultsOf(ranking)))
  /\ UNCHANGED <<vars, store, call, flow, moreVars>>

\* The caller of semanticSearch takes its outcome.
SearchRespond(r) ==
  /\ search[r].pc = "done"
  /\ search' = [search EXCEPT ![r] = IdleSearch]
  /\ UNCHANGED <<vars, checkedOut, store, sent, call, flow, moreVars>>

\* storeCharacter and storeLocation: the INSERT with the vector g.value in
\* its text; the datastore stores the row when the column takes the vector,
\* and the error of the INSERT is caught and logged otherwise.
StoreEntity(id, entityType, g) ==
  /\ sent' = Sent("sync", g.value)
  /\ store' = IF FitsColumn(g.value) THEN Upsert(store, Row(id, entityType, Vector(g.value)))
              ELSE store

\* One character of syncData: processCharacter (the embedding of its text,
\* the capability answering e), then storeCharacter; an error of either
\* skips the character.
SyncCharacter(id, e) ==
  /\ IF GenerateEmbedding(e).raised THEN UNCHANGED <<store, sent>>
     ELSE StoreEntity(id, "character", GenerateEmbedding(e))
  /\ UNCHANGED <<vars, search, checkedOut, call, flow, moreVars>>

\* One location of syncData: processLocation, then storeLocation.
SyncLocation(id, e) ==
  /\ IF GenerateEmbedding(e).raised THEN UNCHANGED <<store, sent>>
     ELSE StoreEntity(id, "location", GenerateEmbedding(e))
  /\ UNCHANGED <<vars, search, checkedOut, call, flow, moreVars>>

\* One search at a time over the table that the sync script fills.
SearchNext ==
  \/ \E query \in SearchQueries, limit \in Limits : SemanticSearch(1, query, limit)
  \/ \E query \in SearchQueries, limit \in Limits : ConnectFails(1, query, limit)
  \/ \E answer \in SearchExpansionReplies : EnhanceQuery(1, answer)
  \/ \E e \in SearchEmbedReplies : EmbedQuery(1, e)
  \/ \E scanned \in SUBSET store, outage \in BOOLEAN : RankQuery(1, scanned, outage)
  \/ SearchRespond(1)
  \/ \E id \in CharacterIds, e \in SyncEmbedReplies : SyncCharacter(id, e)
  \/ \E id \in LocationIds, e \in SyncEmbedReplies : SyncLocation(id, e)

SearchSpec == Init /\ [][SearchNext]_allVars

\* The answers of the capability to the searches that run together.
PoolEmbedReplies ==
  {EmbedReply(ValuesResponse(Padded(<<5, 0>>, EmbeddingDim))),
   EmbedReply(ValuesResponse(<<>>)),
   EmbedReply(JObj(<<>>)),
   EmbedError}

\* Searches that run together on the pool, over the table before the sync.
PoolNext ==
  \E r \in SearchIds :
    \/ SemanticSearch(r, <<"a">>, 1)
    \/ ConnectFails(r, <<"a">>, 1)
    \/ \E answer \in SearchExpansionReplies : EnhanceQuery(r, answer)
    \/ \E e \in PoolEmbedReplies : EmbedQuery(r, e)
    \/ \E outage \in BOOLEAN : RankQuery(r, {}, outage)
    \/ SearchRespond(r)

PoolSpec == Init /\ [][PoolNext]_allVars

(***************************************************************************)
(* Properties of the search service                                        *)
(***************************************************************************)
\* The places of s where a word starts: a character that is no white space,
\* first of the text or after white space.
WordStarts(s) ==
  {i \in 1..Len(s) : ~IsWs(s[i]) /\ (i = 1 \/ IsWs(s[i - 1]))}

\* A query that is not blank and holds at most two words.
HasOneOrTwoWords(s) == Cardinality(WordStarts(s)) \in {1, 2}

\* C12: enhanceQueryWithLLM calls the model exactly when the query holds one
\* or two words, sends it the trimmed query and returns the trimmed answer;
\* for every other query it calls nothing and returns the query as given.
C12_EnhancesExactlyShortQueries ==
  call.fn = "enhanceQueryWithLLM" =>
    /\ call.made <=> HasOneOrTwoWords(call.arg)
    /\ (call.made /\ call.reply.kind = "content") =>
         /\ ~call.raised
         /\ call.sentArg = Trim(call.arg)
         /\ call.value = Trim(call.reply.text)
    /\ ~call.made => (~call.raised /\ call.value = call.arg)

\* C12 at work: two words between white space went to the model and its
\* answer came back trimmed.
C12_Witness ==
  /\ call.fn = "enhanceQueryWithLLM"
  /\ call.arg = <<" ", "a", "\n", "a", " ">>
  /\ call.made
  /\ call.sentArg = <<"a", "\n", "a">>
  /\ call.reply = ContentReply(T_expansion)
  /\ call.value = <<"a", " ", "a", " ", "a", " ", "a">>

\* The lengths n for which the response of the call holds the vector 1..n.
HeldLengths ==
  {n \in VectorLengths : call.reply.response \in ResponsesOf(Counting(n))}

ExtractionErrors ==
  {"No embeddings found in response", "Could not extract embedding values from response"}

CallsOf(r, name) == {i \in 1..Len(search[r].log) : search[r].log[i].call = name}

\* The enhancement call of request r failed.
EnhancementFailed(r) ==
  \E i \in CallsOf(r, "generate") : ~search[r].log[i].ok

\* C13: a search whose enhancement call failed has thrown to its caller: it
\* embedded nothing, queried nothing and returned no result.
C13_EnhancementFailurePropagates ==
  \A r \in SearchIds :
    EnhancementFailed(r) =>
      /\ search[r].pc = "done"
      /\ search[r].raised
      /\ CallsOf(r, "embed") = {}
      /\ CallsOf(r, "query") = {}
      /\ search[r].results = <<>>

\* C13 at work: the search for one word has thrown after the failed call of
\* the model, its log ending there.
C13_Witness ==
  /\ search[1].pc = "done"
  /\ search[1].raised
  /\ search[1].query = <<"a">>
  /\ search[1].log = <<[call |-> "connect", arg |-> <<>>, ok |-> TRUE],
                       [call |-> "generate", arg |-> <<"a">>, ok |-> FALSE]>>

\* The services in the order of the stages.
StageOf(name) ==
  CASE name = "connect" -> 0
    [] name = "generate" -> 1
    [] name = "embed" -> 2
    [] name = "query" -> 3

\* C14: the calls of a search are issued in the order enhance, embed, rank,
\* each at most once; the embedding call is sent the text the enhancement
\* returned (the query as given where no enhancement call is made), the
\* ranking query is sent the vector the embedding returned, and after a call
\* that failed, or an embedding that could not be extracted, no further call
\* is issued.
C14_StagesInOrder ==
  \A r \in SearchIds :
    /\ \A i, j \in 1..Len(search[r].log) :
         i < j => StageOf(search[r].log[i].call) < StageOf(search[r].log[j].call)
    /\ \A i \in 1..Len(search[r].log) : ~search[r].log[i].ok => i = Len(search[r].log)
    /\ \A i \in CallsOf(r, "embed") :
         /\ search[r].log[i].arg = search[r].enhanced
         /\ CallsOf(r, "generate") = {} => search[r].log[i].arg = search[r].query
         /\ CallsOf(r, "generate") # {} => search[r].log[i].arg = Trim(T_expansion)
    /\ \A i \in CallsOf(r, "query") :
         /\ CallsOf(r, "embed") # {}
         /\ search[r].log[i].arg.vector = search[r].embedding
         /\ search[r].log[i].arg.limit = search[r].limit
    /\ (search[r].raised /\ CallsOf(r, "query") # {}) =>
         ~search[r].log[Len(search[r].log)].ok

\* C14 at work: a search of one word has returned after the four calls in
\* their order, the enhanced text embedded and the truncated vector ranked.
C14_Witness ==
  /\ search[1].pc = "done"
  /\ ~search[1].raised
  /\ Len(search[1].log) = 4
  /\ search[1].log[2] = [call |-> "generate", arg |-> <<"a">>, ok |-> TRUE]
  /\ search[1].log[3] =
       [call |-> "embed", arg |-> <<"a", " ", "a", " ", "a", " ", "a">>, ok |-> TRUE]
  /\ search[1].log[4].call = "query"
  /\ search[1].log[4].arg.vector = Padded(<<4, 3>>, EmbeddingDim)
  /\ Len(search[1].results) = 2

\* The searches that hold a connection: between pool.connect() and the exit.
InFlight == {r \in SearchIds : search[r].pc \in {"connected", "enhanced", "embedded"}}

\* C15: a search that has left semanticSearch, by its return or by the error
\* of any stage, has released the connection it acquired exactly once, and a
\* search in flight has not released; the connections checked out are those
\* of the searches in flight, so that none is checked out once every search
\* has completed.
C15_ReleasedExactlyOnce ==
  /\ \A r \in SearchIds :
       /\ search[r].pc = "done" =>
            search[r].releases = (IF search[r].conn = 0 THEN 0 ELSE 1)
       /\ r \in InFlight => (search[r].releases = 0 /\ search[r].conn \in checkedOut)
  /\ Cardinality(checkedOut) = Cardinality(InFlight)
  /\ InFlight = {} => checkedOut = {}

\* C15 at work: two searches held two connections together; one has
\* returned and the other has thrown after its embedding call failed, and no
\* connection is checked out.
C15_Witness ==
  /\ search[1].pc = "done" /\ ~search[1].raised /\ search[1].conn = 1
  /\ search[2].pc = "done" /\ search[2].raised /\ search[2].conn = 2
  /\ Len(search[2].log) = 3 /\ ~search[2].log[3].ok
  /\ search[1].releases = 1 /\ search[2].releases = 1
  /\ checkedOut = {}

\* The step in which search r gets the answer of its ranking query and returns.
Ranks(r) ==
  /\ search[r].pc = "embedded"
  /\ search'[r].pc = "done"
  /\ ~search'[r].raised

\* The results ascend in distance.
Ascending(results) ==
  \A i \in 1..(Len(results) - 1) : AtMost(results[i].distance, results[i + 1].distance)

\* No entity comes twice in the results.
Distinct(results) ==
  \A i, j \in 1..Len(results) :
    i # j => (results[i].id # results[j].id \/ results[i].type # results[j].type)

\* The row x is among the results.
Among(results, x) ==
  \E i \in 1..Len(results) : results[i].id = x.id /\ results[i].type = x.entity_type

\* Every result is a row of rows under its id and variant, with its distance to q.
FromRows(results, rows, q) ==
  \A i \in 1..Len(results) :
    \E x \in rows :
      /\ results[i].id = x.id
      /\ results[i].type = x.entity_type
      /\ results[i].distance = CosineDistance(x.embedding.v, q)

\* The results are the limit nearest of rows (all of them when there are fewer).
NearestOf(results, rows, q, limit) ==
  /\ Len(results) = (IF limit < Cardinality(rows) THEN limit ELSE Cardinality(rows))
  /\ \A x \in rows :
       ~Among(results, x) =>
         AtMost(results[Len(results)].distance, CosineDistance(x.embedding.v, q))

\* C16 as stated: the results of a search with limit K over the table as it
\* is when the query runs are at most K, ascend in distance, and are the K
\* nearest of all the rows of both variants that have an embedding.
C16_KNearestOfAll ==
  [][Ranks(1) =>
       /\ Len(search'[1].results) <= search[1].limit
       /\ Ascending(search'[1].results)
       /\ NearestOf(search'[1].results, WithEmbedding(store), search[1].embedding,
                    search[1].limit)]_allVars

\* C16 as amended: the results are at most K, ascend in distance, and are
\* distinct rows of the table, of either variant, that have an embedding,
\* each with its cosine distance to the query vector; they are the nearest
\* of the rows the index scan visits, which need not be every row.
C16_AtMostKAscending ==
  [][Ranks(1) =>
       /\ Len(search'[1].results) <= search[1].limit
       /\ Ascending(search'[1].results)
       /\ Distinct(search'[1].results)
       /\ FromRows(search'[1].results, WithEmbedding(store), search[1].embedding)]_allVars

\* C16 at work: over two characters and a location the search with limit 2
\* has returned the location before a character that is farther.
C16_Witness ==
  /\ search[1].pc = "done"
  /\ ~search[1].raised
  /\ search[1].limit = 2
  /\ Cardinality(store) = 3
  /\ Len(search[1].results) = 2
  /\ search[1].results[1].type = "location"
  /\ search[1].results[2].type = "character"
  /\ ~AtMost(search[1].results[2].distance, search[1].results[1].distance)

\* C18: every vector sent to the datastore, by the sync script in an INSERT
\* or by a search in its ranking query, holds exactly 768 numbers.
C18_SentVectorsHaveDim ==
  \A x \in sent : x.dims = EmbeddingDim

\* C18 fails: the sync script has sent the 767 numbers the capability
\* answered with.
C18_Witness ==
  sent = {[by |-> "sync", dims |-> EmbeddingDim - 1]}

(***************************************************************************)
(* generateCharacterCompatibility, one action for each answer it awaits    *)
(***************************************************************************)
\* An entry of the log of the flow: a call issued or an answer received.
Event(event, who) == [event |-> event, who |-> who]

\* Promise.all resolves when one answer is in.
SomeSettled(states) == \E b \in DOMAIN states : states[b] # "pending"

\* Promise.all resolves when every answer is in.
AllSettled(states) == \A b \in DOMAIN states : states[b] # "pending"

\* The answers of the model to the compatibility prompt.
FlowReplies == {ContentReply(T_compatFull), ErrorReply}

\* generateCharacterCompatibility up to its first await: the three fetches
\* are issued together.
StartCompatibility ==
  /\ flow.pc = "idle"
  /\ flow' = [flow EXCEPT !.pc = "fetching",
                          !.fetch = [b \in Fetches |-> "pending"],
                          !.log = <<Event("fetch", "character1"),
                                    Event("fetch", "character2"),
                                    Event("fetch", "location")>>]
  /\ UNCHANGED <<vars, searchVars, moreVars>>

\* The flow f after its fetches are all in: an entity that was not found is
\* an error, else the two image analyses are issued together.
AfterFetches(f) ==
  IF \E b \in Fetches : f.fetch[b] = "missing"
  THEN [f EXCEPT !.pc = "done", !.raised = TRUE]
  ELSE [f EXCEPT !.pc = "analyzing",
                 !.image = [i \in Images |-> "pending"],
                 !.log = f.log \o <<Event("analyze", "image1"), Event("analyze", "image2")>>]

\* The flow f after an answer to a fetch: Promise.all rejects with the first
\* fetch that fails and resolves when every fetch is in; a fetch that
\* answers after the function has thrown changes nothing.
FetchSettled(f, outcome) ==
  IF f.pc # "fetching" THEN f
  ELSE IF outcome = "failed" THEN [f EXCEPT !.pc = "done", !.raised = TRUE]
  ELSE IF AllSettled(f.fetch) THEN AfterFetches(f)
  ELSE f

\* The data service answers the fetch b: the entity, no entity under the
\* id, or an error.
FetchReturns(b, outcome) ==
  /\ flow.fetch[b] = "pending"
  /\ flow' = FetchSettled([flow EXCEPT !.fetch[b] = outcome,
                                       !.log = Append(@, Event(outcome, b))],
                          outcome)
  /\ UNCHANGED <<vars, searchVars, moreVars>>

\* The flow f after an answer to an image analysis: once both are in, the
\* prompt is composed and the generation call is issued.
ImageSettled(f) ==
  IF AllSettled(f.image)
  THEN [f EXCEPT !.pc = "generating", !.log = Append(@, Event("generate", "prompt"))]
  ELSE f

\* analyzeCharacterImage(i) answers: the description of a vision model, or
\* its fallback description when every vision model has failed.
ImageReturns(i, outcome) ==
  /\ flow.pc = "analyzing"
  /\ flow.image[i] = "pending"
  /\ flow' = ImageSettled([flow EXCEPT !.image[i] = outcome,
                                       !.log = Append(@, Event(outcome, i))])
  /\ UNCHANGED <<vars, searchVars, moreVars>>

\* The analysis of the model parsed, or the fallback where the call or the
\* parser has failed.
AnalysisOr(r, parsed, fallback) ==
  IF r.kind = "error" \/ parsed.raised THEN fallback ELSE parsed.result

\* The model answers the generation call with r: the parsed analysis, or
\* the fallback in the catch block.
GenerateReturns(r) ==
  /\ flow.pc = "generating"
  /\ flow' = [flow EXCEPT !.pc = "done",
                          !.value = AnalysisOr(r, ParseCompatibilityAnalysis(GenerateWithLLM(r)),
                                               GenerateFallbackCompatibility(Rick, Morty, Citadel))]
  /\ UNCHANGED <<vars, searchVars, moreVars>>

\* The caller takes the outcome.
FlowRespond ==
  /\ flow.pc = "done"
  /\ flow' = NoFlow
  /\ UNCHANGED <<vars, searchVars, moreVars>>

FlowNext ==
  \/ StartCompatibility
  \/ \E b \in Fetches, outcome \in {"fetched", "missing", "failed"} : FetchReturns(b, outcome)
  \/ \E i \in Images, outcome \in {"analyzed", "fallback"} : ImageReturns(i, outcome)
  \/ \E r \in FlowReplies : GenerateReturns(r)
  \/ FlowRespond

FlowSpec == Init /\ [][FlowNext]_allVars

\* The places of the log of the flow that hold event for who.
Places(event, who) ==
  {k \in 1..Len(flow.log) : flow.log[k] = Event(event, who)}

\* The generation call has been issued.
GenerationIssued == Places("generate", "prompt") # {}

\* Every one of the events stands in the log before the generation call.
AllBeforeGeneration(events) ==
  \A e \in events :
    \E k \in Places(e[1], e[2]) : \A g \in Places("generate", "prompt") : k < g

C21_NoRetry ==
  \A r \in SearchIds :
    /\ Cardinality(CallsOf(r, "generate")) <= 1
    /\ Cardinality(CallsOf(r, "embed")) <= 1
    /\ \A i \in CallsOf(r, "generate") \cup CallsOf(r, "embed") :
         ~search[r].log[i].ok =>
           /\ search[r].raised
           /\ \A j \in 1..Len(search[r].log) : j <= i

\* C21 at work: the embedding call of a search failed after the generation
\* call had succeeded; the search has thrown with each called once.
C21_Witness ==
  /\ search[1].pc = "done"
  /\ search[1].raised
  /\ Len(search[1].log) = 3
  /\ search[1].log[2].call = "generate" /\ search[1].log[2].ok
  /\ search[1].log[3].call = "embed" /\ ~search[1].log[3].ok

\* The handlers that write a description or an analysis from the fetched
\* attributes.
DescribingOps ==
  {"generateLocationDescription", "generateCharacterDescription",
   "generateCharacterCompatibility"}

\* C22: a location description, character description or compatibility
\* generation whose entities were fetched and whose model call failed
\* returns to its caller instead of raising, the compatibility generation
\* with the fallback built from the attributes of its characters.
C22_GenerationFailureGivesFallback ==
  \A o \in DescribingOps :
    (Done(o) /\ reply.kind = "error") =>
      /\ ~out.raised
      /\ o = "generateCharacterCompatibility" =>
           out.value = GenerateFallbackCompatibility(cast[1], cast[2], Citadel)

\* C22 at work: the model call of a compatibility generation failed and the
\* fallback for Birdperson and Rick came back.
C22_Witness ==
  /\ Done("generateCharacterCompatibility")
  /\ reply = ErrorReply
  /\ cast = <<Birdperson, Rick>>
  /\ out = Returned(GenerateFallbackCompatibility(Birdperson, Rick, Citadel))

\* C23: an evaluation of a character or location description whose model
\* call failed has raised to its caller and has returned no record.
C23_EvaluationFailurePropagates ==
  \A o \in {"evaluateCharacterDescription", "evaluateLocationDescription"} :
    (Done(o) /\ reply.kind = "error") => (out.raised /\ out.value = <<>>)

\* C23 at work: the model call of a location evaluation failed, and the
\* evaluation raised.
C23_Witness ==
  /\ Done("evaluateLocationDescription")
  /\ reply = ErrorReply
  /\ out = Raised

(***************************************************************************)
(* The HTTP boundary of server.js                                          *)
(***************************************************************************)
P_description == <<"d", "e", "s", "c", "r", "i", "p", "t", "i", "o", "n">>
P_character1Id == <<"c", "h", "a", "r", "a", "c", "t", "e", "r", "1", "I", "d">>
P_character2Id == <<"c", "h", "a", "r", "a", "c", "t", "e", "r", "2", "I", "d">>
P_locationId == <<"l", "o", "c", "a", "t", "i", "o", "n", "I", "d">>
P_query == <<"q", "u", "e", "r", "y">>
P_limit == <<"l", "i", "m", "i", "t">>

\* The routes of the server.
Endpoints ==
  {"health", "locationDescription", "locationEvaluate", "characterDescription",
   "characterEvaluate", "characterInsights", "compatibility", "search"}

\* The service operations the handler of a route awaits, in their order.
Services(endpoint) ==
  CASE endpoint = "health" -> <<>>
    [] endpoint = "locationDescription" -> <<"generateLocationDescription">>
    [] endpoint = "locationEvaluate" ->
         <<"generateLocationDescription", "evaluateLocationDescription">>
    [] endpoint = "characterDescription" -> <<"generateCharacterDescription">>
    [] endpoint = "characterEvaluate" ->
         <<"generateCharacterDescription", "evaluateCharacterDescription">>
    [] endpoint = "characterInsights" -> <<"generateCharacterInsights">>
    [] endpoint = "compatibility" -> <<"generateCharacterCompatibility">>
    [] endpoint = "search" -> <<"semanticSearch">>

\* The guard of the compatibility route with && in place of ||: the request
\* is refused only when all its ids are missing.
MissingInputAll(endpoint, body) ==
  CASE endpoint \in {"locationEvaluate", "characterEvaluate"} ->
         ~Truthy(GetProp(body, P_description))
    [] endpoint = "compatibility" ->
         /\ ~Truthy(GetProp(body, P_character1Id))
         /\ ~Truthy(GetProp(body, P_character2Id))
         /\ ~Truthy(GetProp(body, P_locationId))
    [] endpoint = "search" ->
         \/ ~Truthy(GetProp(body, P_query))
         \/ GetProp(body, P_query).t # "str"
         \/ Len(Trim(GetProp(body, P_query).v)) = 0
    [] OTHER -> FALSE

\* The guards at the head of the handlers: !description; !character1Id ||
\* !character2Id || !locationId; !query || typeof query !== 'string' ||
\* query.trim().length === 0. The other routes read nothing of the body.
MissingInput(endpoint, body) ==
  CASE endpoint \in {"locationEvaluate", "characterEvaluate"} ->
         ~Truthy(GetProp(body, P_description))
    [] endpoint = "compatibility" ->
         \/ ~Truthy(GetProp(body, P_character1Id))
         \/ ~Truthy(GetProp(body, P_character2Id))
         \/ ~Truthy(GetProp(body, P_locationId))
    [] endpoint = "search" ->
         \/ ~Truthy(GetProp(body, P_query))
         \/ GetProp(body, P_query).t # "str"
         \/ Len(Trim(GetProp(body, P_query).v)) = 0
    [] OTHER -> FALSE

\* Number.isInteger(x) && x > 0 of a number written without sign, fraction
\* or exponent, as the requests here write theirs.
IsPositiveInteger(x) ==
  /\ x.t = "num"
  /\ \A k \in 1..Len(x.v) : IsDigit(x.v[k])
  /\ ~IsZeroLexeme(x.v)

\* limit && Number.isInteger(limit) && limit > 0 ? limit : 6.
SearchLimit(limit) ==
  IF Truthy(limit) /\ IsPositiveInteger(limit) THEN limit ELSE JNum(<<"6">>)

\* The call of the k-th service operation of the route: its name and, for
\* the search, the trimmed query and the limit it is passed.
Invocation(endpoint, body, k) ==
  IF endpoint = "search"
  THEN [op |-> Services(endpoint)[k],
        args |-> <<Trim(GetProp(body, P_query).v), SearchLimit(GetProp(body, P_limit))>>]
  ELSE [op |-> Services(endpoint)[k], args |-> <<>>]

\* The handler sends a response with the status.
Responds(h, status) ==
  [h EXCEPT !.pc = "responded", !.responses = Append(@, status)]

\* A handler from the arrival of its request to its first await: the 400
\* response to a request without its required input, else the call of the
\* first service operation (the health route answers at once).
HttpRequest(endpoint, body) ==
  /\ http.pc = "idle"
  /\ http' =
       IF MissingInput(endpoint, body)
       THEN Responds([NoHttp EXCEPT !.endpoint = endpoint, !.body = body], 400)
       ELSE IF Services(endpoint) = <<>>
       THEN Responds([NoHttp EXCEPT !.endpoint = endpoint, !.body = body], 200)
       ELSE [NoHttp EXCEPT !.pc = "awaiting", !.endpoint = endpoint, !.body = body,
                           !.invoked = <<Invocation(endpoint, body, 1)>>]
  /\ UNCHANGED <<vars, searchVars, flow, batch, pages, vision>>

\* The service operation awaited settles: its rejection is caught and
\* answered with 500; after its result the next operation of the route is
\* called, or the success response is sent.
ServiceSettles(ok) ==
  /\ http.pc = "awaiting"
  /\ http' =
       IF ~ok THEN Responds([http EXCEPT !.failed = TRUE], 500)
       ELSE IF Len(http.invoked) < Len(Services(http.endpoint))
       THEN [http EXCEPT !.invoked =
               Append(@, Invocation(http.endpoint, http.body, Len(http.invoked) + 1))]
       ELSE Responds(http, 200)
  /\ UNCHANGED <<vars, searchVars, flow, batch, pages, vision>>

\* The exchange is over.
HttpClose ==
  /\ http.pc = "responded"
  /\ http' = NoHttp
  /\ UNCHANGED <<vars, searchVars, flow, batch, pages, vision>>

\* The values a client sends for a description, an id, a query and a limit;
\* undefined stands for a property the body does not hold.
DescriptionValues == {JUndef, JNull, JStr(<<>>), JStr(<<"a">>), JNum(<<"0">>)}
IdValues == {JUndef, JNum(<<"0">>), JNum(<<"1">>), JStr(<<"2">>)}
QueryValues ==
  {JUndef, JStr(<<>>), JStr(<<" ">>), JNum(<<"5">>), JStr(<<" ", "a">>),
   JArr(<<>>)}
LimitValues == {JUndef, JNum(<<"0">>), JNum(<<"3">>), JStr(<<"3">>)}

\* Whether the entry of a body holds a value.
IsPresent(entry) == entry[2] # JUndef

\* The object with the entries that hold a value.
BodyOf(entries) == JObj(SelectSeq(entries, IsPresent))

\* The bodies a client sends to a route.
BodiesOf(endpoint) ==
  CASE endpoint \in {"locationEvaluate", "characterEvaluate"} ->
         {BodyOf(<<<<P_description, d>>>>) : d \in DescriptionValues}
    [] endpoint = "compatibility" ->
         {BodyOf(<<<<P_character1Id, a>>, <<P_character2Id, b>>, <<P_locationId, c>>>>) :
            a \in IdValues, b \in IdValues, c \in IdValues}
    [] endpoint = "search" ->
         {BodyOf(<<<<P_query, q>>, <<P_limit, l>>>>) : q \in QueryValues, l \in LimitValues}
    [] OTHER -> {BodyOf(<<>>)}

HttpNext ==
  \/ \E endpoint \in Endpoints : \E body \in BodiesOf(endpoint) : HttpRequest(endpoint, body)
  \/ \E ok \in BOOLEAN : ServiceSettles(ok)
  \/ HttpClose

HttpSpec == Init /\ [][HttpNext]_allVars

\* A required input counts as given when the body holds it with a value
\* other than null, the empty string and zero.
Given(body, key) ==
  GetProp(body, key) \notin {JUndef, JNull, JStr(<<>>), JNum(<<"0">>)}

\* The request lacks an input its route requires: the description of an
\* evaluation, one of the three ids of a compatibility analysis, a query of
\* a search that is a string with a character other than white space.
LacksRequiredInput(endpoint, body) ==
  \/ endpoint \in {"locationEvaluate", "characterEvaluate"} /\ ~Given(body, P_description)
  \/ endpoint = "compatibility"
       /\ \E key \in {P_character1Id, P_character2Id, P_locationId} : ~Given(body, key)
  \/ endpoint = "search"
       /\ \/ GetProp(body, P_query).t # "str"
          \/ \A k \in 1..Len(GetProp(body, P_query).v) : IsWs(GetProp(body, P_query).v[k])

\* C24: a request is answered at most once, and once its handler is done
\* exactly once: with 400, and without a service operation ever invoked, when
\* it lacks a required input; else with 500 when a service operation failed;
\* else with 200, after every service operation of its route was invoked.
C24_OneResponsePerRequest ==
  /\ Len(http.responses) <= 1
  /\ (http.pc = "responded") = (Len(http.responses) = 1)
  /\ (http.pc # "idle" /\ LacksRequiredInput(http.endpoint, http.body)) =>
       (http.invoked = <<>> /\ http.responses = <<400>>)
  /\ (http.pc = "responded" /\ ~LacksRequiredInput(http.endpoint, http.body)) =>
       /\ http.failed => http.responses = <<500>>
       /\ ~http.failed =>
            /\ http.responses = <<200>>
            /\ Len(http.invoked) = Len(Services(http.endpoint))

\* C24 at work: a compatibility request without its location id was
\* answered with 400 and nothing was invoked.
C24_Witness ==
  /\ http.pc = "responded"
  /\ http.endpoint = "compatibility"
  /\ http.body = BodyOf(<<<<P_character1Id, JNum(<<"1">>)>>, <<P_character2Id, JStr(<<"2">>)>>>>)
  /\ http.responses = <<400>>
  /\ http.invoked = <<>>

(***************************************************************************)
(* storeCharacter and storeLocation of the sync script                     *)
(***************************************************************************)
\* A column that holds no value.
NullText == "NULL"

\* The row that storeCharacter inserts for the processed character p: the
\* columns of a location are left without value.
CharacterRow(p) ==
  [id |-> p.id, entity_type |-> "character", name |-> p.name, status |-> p.status,
   dimension |-> NullText, embedding |-> p.embedding]

\* The row that storeLocation inserts for the processed location p.
LocationRow(p) ==
  [id |-> p.id, entity_type |-> "location", name |-> p.name, status |-> NullText,
   dimension |-> p.dimension, embedding |-> p.embedding]

\* Whether the datastore takes the row: a vector of the dimensions of the
\* column, or no vector.
Accepted(row) == row.embedding.null \/ FitsColumn(row.embedding.v)

\* The table after the INSERT ... ON CONFLICT of the row; a statement the
\* datastore rejects leaves the table as it was.
Stored(rows, row) == IF Accepted(row) THEN Upsert(rows, row) ELSE rows

\* The store operation fn with the processed entity p, and whether it threw.
StoreCall(fn, p, row) ==
  [NoCall EXCEPT !.fn = fn, !.arg = p, !.made = TRUE, !.raised = ~Accepted(row)]

\* storeCharacter(client, p).
StoreCharacter(p) ==
  /\ store' = Stored(store, CharacterRow(p))
  /\ sent' = IF p.embedding.null THEN sent ELSE Sent("sync", p.embedding.v)
  /\ call' = StoreCall("storeCharacter", p, CharacterRow(p))
  /\ UNCHANGED <<vars, search, checkedOut, flow, moreVars>>

\* storeLocation(client, p).
StoreLocation(p) ==
  /\ store' = Stored(store, LocationRow(p))
  /\ sent' = IF p.embedding.null THEN sent ELSE Sent("sync", p.embedding.v)
  /\ call' = StoreCall("storeLocation", p, LocationRow(p))
  /\ UNCHANGED <<vars, search, checkedOut, flow, moreVars>>

\* The embeddings of the processed entities: none, two vectors of the
\* dimensions of the column, and a shorter one.
ProcessedEmbeddings ==
  {Null, Vector(Padded(<<5, 0>>, EmbeddingDim)), Vector(Padded(<<3, 4>>, EmbeddingDim)),
   Vector(Padded(<<3, 4>>, EmbeddingDim - 1))}

\* The processed characters and locations that the sync script stores.
ProcessedCharacters ==
  {[id |-> i, name |-> a[1], status |-> a[2], embedding |-> e] :
     i \in CharacterIds, a \in {<<"Rick", "Alive">>, <<"Birdperson", "Dead">>},
     e \in ProcessedEmbeddings}

ProcessedLocations ==
  {[id |-> i, name |-> a[1], dimension |-> a[2], embedding |-> e] :
     i \in LocationIds, a \in {<<"Citadel", "unknown">>, <<"Earth", "C-137">>},
     e \in ProcessedEmbeddings}

StoreNext ==
  \/ \E p \in ProcessedCharacters : StoreCharacter(p)
  \/ \E p \in ProcessedLocations : StoreLocation(p)

StoreSpec == Init /\ [][StoreNext]_allVars

\* The rows of the table under the identity of the row.
RowsOf(rows, row) ==
  {x \in rows : x.id = row.id /\ x.entity_type = row.entity_type}

\* The row of the last store operation.
LastRow(c) ==
  IF c.fn = "storeCharacter" THEN CharacterRow(c.arg) ELSE LocationRow(c.arg)

\* C25: every store operation leaves at most one row under each (id,
\* entity_type); it leaves every row of another identity, the other variant
\* of the same id among them, as it was; and when the datastore accepts it,
\* the one row under its identity holds the attributes and the embedding it
\* was given.
C25_OneRowPerIdentity ==
  [][/\ \A x \in store' : RowsOf(store', x) = {x}
     /\ \A x \in store : RowsOf({LastRow(call')}, x) = {} => x \in store'
     /\ \A x \in store' : RowsOf({LastRow(call')}, x) = {} => x \in store
     /\ ~call'.raised => RowsOf(store', LastRow(call')) = {LastRow(call')}
     /\ call'.raised => store' = store]_allVars

\* C25 at work: character 1 and location 1 are both stored, and character 1
\* was stored a second time with other attributes and another embedding.
C25_Witness ==
  /\ call.fn = "storeCharacter"
  /\ store = {CharacterRow([id |-> 1, name |-> "Birdperson", status |-> "Dead",
                            embedding |-> Vector(Padded(<<3, 4>>, EmbeddingDim))]),
              LocationRow([id |-> 1, name |-> "Citadel", dimension |-> "unknown",
                           embedding |-> Vector(Padded(<<5, 0>>, EmbeddingDim))])}

\* The text holds a list delimiter: a bullet or number marker at the start
\* of a line.
HasListDelimiter(text) == \E i \in 1..Len(text) : BulletSepEnd(text, i) > 0

\* C26: parseTextToArray returns only items longer than the threshold that
\* are no stoplist fragment; of a text with list delimiters it returns the
\* filtered pieces between the delimiters, and of a text without them the
\* sentences.
C26_DelimitedItemsOrSentences ==
  call.fn = "parseTextToArray" =>
    /\ \A k \in 1..Len(call.value) :
         Len(call.value[k].v) > MinItemLength /\ ~IsStopItem(call.value[k].v)
    /\ HasListDelimiter(call.arg) => call.value = StrValues(BulletItems(call.arg))
    /\ (call.arg # <<>> /\ ~HasListDelimiter(call.arg))
         => call.value = StrValues(Sentences(call.arg))

\* C26 at work: two long items under bullet markers, and a short one that
\* is dropped.
C26_Witness ==
  /\ call.fn = "parseTextToArray"
  /\ call.arg = LongItem \o <<"\n", "-", " ">> \o ShortItem \o <<"\n", "1", ".", " ">> \o LongItem
  /\ call.value = StrValues(<<LongItem, LongItem>>)

\* The configuration has no entry for the template name.
NotConfigured(templateName) == \A c \in LlmConfig : c.template_name # templateName

\* C27: generateWithLLM called with a template name that the configuration
\* has no entry for still makes the generation call and does not fail for
\* the missing entry.
C27_UnknownTemplateStillGenerates ==
  (call.fn = "generateWithLLM" /\ NotConfigured(call.arg)) =>
    call.made /\ call.error # "ConfigurationNotFound"

\* C27 at work: generateWithLLM was called with the template name of the
\* insights, which the configuration lacks, and left with the error of the
\* missing entry before any completion call.
C27_Witness ==
  /\ call.fn = "generateWithLLM"
  /\ call.arg = "character_insights_generation"
  /\ call.raised
  /\ call.error = "ConfigurationNotFound"
  /\ ~call.made

(***************************************************************************)
(* processInBatches of the sync script: the items are processed slice by   *)
(* slice, the calls of one slice together                                  *)
(***************************************************************************)
\* The batch size syncData passes for the locations.
LocationBatchSize == 15

\* The batch sizes of the calls.
BatchSizes == {1, 2, LocationBatchSize}

\* The lists of location ids handed to processInBatches.
ItemLists == {<<>>, <<7>>, <<2, 1>>, <<3, 1, 2>>, <<4, 2, 1, 3, 5>>}

\* The places of items.slice(i, i + batchSize) in a list of n items.
SlicePlaces(n, i, batchSize) == {k \in 1..n : i < k /\ k <= i + batchSize}

\* The places lo+1 .. hi in increasing order.
PlacesInOrder(lo, hi) == [j \in 1..(hi - lo) |-> lo + j]

\* batch.map(item => processFn(item)...): processFn is called for every item
\* of the slice at i.
Started(b, i) ==
  LET slice == SlicePlaces(Len(b.items), i, b.size)
  IN [b EXCEPT !.i = i,
               !.status = [k \in 1..Len(b.items) |->
                             IF k \in slice THEN "inflight" ELSE b.status[k]],
               !.starts = [k \in 1..Len(b.items) |->
                             IF k \in slice THEN b.starts[k] + 1 ELSE b.starts[k]]]

\* The loop at index i: the calls of the next slice are made and awaited,
\* or, past the last item, the results are returned.
Loop(b, i) ==
  IF i < Len(b.items) THEN [Started(b, i) EXCEPT !.pc = "awaiting"]
  ELSE [b EXCEPT !.i = i, !.pc = "done"]

\* processInBatches(items, processLocation, batchSize) up to its first await.
ProcessInBatches(items, batchSize) ==
  /\ batch.pc = "idle"
  /\ batch' = Loop([NoBatch EXCEPT !.items = items, !.size = batchSize,
                                   !.status = [k \in 1..Len(items) |-> "waiting"],
                                   !.starts = [k \in 1..Len(items) |-> 0]], 0)
  /\ UNCHANGED <<vars, searchVars, flow, http, pages, vision>>

\* processFn(item) of the item at place k settles; the catch handler turns a
\* rejection into null.
ProcessSettles(k, ok) ==
  /\ batch.pc = "awaiting"
  /\ k \in 1..Len(batch.items)
  /\ batch.status[k] = "inflight"
  /\ batch' = [batch EXCEPT !.status[k] = IF ok THEN "ok" ELSE "null"]
  /\ UNCHANGED <<vars, searchVars, flow, http, pages, vision>>

\* Promise.all resolving on the first settled call of the slice.
BatchSomeSettled(b) ==
  \E k \in SlicePlaces(Len(b.items), b.i, b.size) : b.status[k] # "inflight"

\* Promise.all over the caught calls of the slice: it resolves once every
\* call of the slice has settled.
BatchSettled(b) ==
  \A k \in SlicePlaces(Len(b.items), b.i, b.size) : b.status[k] # "inflight"

\* The result of processLocation for a location id.
Processed(id) == [id |-> id]

\* batchResults.filter(r => r !== null) for the places in order.
Survivors(b, places) ==
  LET kept == SelectSeq(places, LAMBDA k : b.status[k] = "ok")
  IN [j \in 1..Len(kept) |-> Processed(b.items[kept[j]])]

\* The await of the slice returns: the results that are not null are pushed
\* and the loop goes on with the next slice.
BatchResumes ==
  /\ batch.pc = "awaiting"
  /\ BatchSettled(batch)
  /\ batch' = Loop([batch EXCEPT !.results =
                       @ \o Survivors(batch, PlacesInOrder(batch.i,
                              IF batch.i + batch.size < Len(batch.items)
                              THEN batch.i + batch.size ELSE Len(batch.items)))],
                   batch.i + batch.size)
  /\ UNCHANGED <<vars, searchVars, flow, http, pages, vision>>

\* The caller takes the results.
BatchClose ==
  /\ batch.pc = "done"
  /\ batch' = NoBatch
  /\ UNCHANGED <<vars, searchVars, flow, http, pages, vision>>

BatchNext ==
  \/ \E items \in ItemLists, batchSize \in BatchSizes : ProcessInBatches(items, batchSize)
  \/ \E k \in 1..Len(batch.items), ok \in BOOLEAN : ProcessSettles(k, ok)
  \/ BatchResumes
  \/ BatchClose

BatchSpec == Init /\ [][BatchNext]_allVars

\* The places whose call is in flight.
CallsInFlight(b) == {k \in 1..Len(b.items) : b.status[k] = "inflight"}

\* C28: processInBatches has at most batchSize calls in flight, all of them
\* in the current slice; every call of an earlier slice has settled and no
\* call of a later slice has started; no item is processed twice; a failed
\* item stops nothing, and the results returned are those of the items
\* that succeeded, in input order.
C28_BatchesInTurn ==
  LET n == Len(batch.items)
  IN /\ Cardinality(CallsInFlight(batch)) <= batch.size
     /\ CallsInFlight(batch) \subseteq SlicePlaces(n, batch.i, batch.size)
     /\ \A k \in 1..n :
          /\ batch.starts[k] <= 1
          /\ k <= batch.i => batch.status[k] \in {"ok", "null"}
          /\ k > batch.i + batch.size =>
               batch.status[k] = "waiting" /\ batch.starts[k] = 0
     /\ batch.pc = "done" =>
          /\ \A k \in 1..n : batch.status[k] \in {"ok", "null"} /\ batch.starts[k] = 1
          /\ batch.results = Survivors(batch, PlacesInOrder(0, n))

\* C28 at work: five locations in batches of two, the second and the fifth
\* failed, and the other three are returned in input order.
C28_Witness ==
  /\ batch.pc = "done"
  /\ batch.items = <<4, 2, 1, 3, 5>>
  /\ batch.size = 2
  /\ batch.status = <<"ok", "null", "ok", "ok", "null">>
  /\ batch.results = <<Processed(4), Processed(1), Processed(3)>>

(***************************************************************************)
(* fetchAllCharacters and fetchAllLocations of the sync script: the pages  *)
(* of the upstream graph are requested one after the other                 *)
(***************************************************************************)
\* The pages whose answers are followed.
MaxPages == 3

\* data.characters or data.locations of an answer: absent, or an object whose
\* info and results may each be absent.
NoEntities ==
  [present |-> FALSE, info |-> [present |-> FALSE, next |-> JUndef],
   results |-> [present |-> FALSE, v |-> <<>>]]

Entities(info, results) == [present |-> TRUE, info |-> info, results |-> results]

NoInfo == [present |-> FALSE, next |-> JUndef]

Info(next) == [present |-> TRUE, next |-> next]

NoResults == [present |-> FALSE, v |-> <<>>]

Results(v) == [present |-> TRUE, v |-> v]

\* The answers to a page request: the data of the page, or a failed request;
\* a request that is still out has no answer yet.
PageData(entities) == [kind |-> "data", entities |-> entities]

PageError == [kind |-> "error", entities |-> NoEntities]

Pending == [kind |-> "pending", entities |-> NoEntities]

\* The ids on page p of the upstream graph.
PageIds(p) == <<2 * p - 1, 2 * p>>

\* The number p as upstream writes it in info.next.
PageNumber(p) == JNum(<<<<"0", "1", "2", "3", "4", "5", "6", "7", "8", "9">>[p + 1]>>)

\* What upstream may answer to the request of page p.
PageAnswers(p) ==
  {PageError, PageData(NoEntities)}
    \cup {PageData(Entities(info, results)) :
            info \in {NoInfo, Info(JNull), Info(PageNumber(p + 1))},
            results \in {NoResults, Results(PageIds(p))}}

\* data.characters?.results || []
ResultsOrNone(entities) ==
  IF entities.present /\ entities.results.present THEN entities.results.v ELSE <<>>

\* data.characters?.info?.next
OptNext(entities) ==
  IF entities.present /\ entities.info.present THEN entities.info.next ELSE JUndef

\* A next-page test that takes an absent next for null (!= null).
HasNextPageLoose(entities) == OptNext(entities) \notin {JNull, JUndef}

\* hasNextPage = data.characters?.info?.next !== null
HasNextPage(entities) == OptNext(entities) # JNull

\* The request of the page p.page goes out.
Requested(p) == [p EXCEPT !.pc = "awaiting", !.log = Append(@, [page |-> p.page, answer |-> Pending])]

\* The loop test: another request while hasNextPage, the return otherwise.
WhileHasNextPage(p) == IF p.hasNextPage THEN Requested(p) ELSE [p EXCEPT !.pc = "done"]

\* fetchAllCharacters() or fetchAllLocations() up to the first await.
FetchAll(kind) ==
  /\ pages.pc = "idle"
  /\ pages' = WhileHasNextPage([NoPages EXCEPT !.kind = kind, !.page = 1,
                                               !.hasNextPage = TRUE])
  /\ UNCHANGED <<vars, searchVars, flow, http, batch, vision>>

\* The body of the loop after the await: the results are pushed, hasNextPage
\* is set and page goes up; the catch block of a failed request clears
\* hasNextPage and leaves page alone.
PageAnswered(p, answer) ==
  LET logged == [p EXCEPT !.log[Len(p.log)].answer = answer]
  IN IF answer.kind = "error" THEN [logged EXCEPT !.hasNextPage = FALSE]
     ELSE [logged EXCEPT !.all = @ \o ResultsOrNone(answer.entities),
                         !.hasNextPage = HasNextPage(answer.entities),
                         !.page = @ + 1]

\* graphqlClient.request of the page settles with answer and the loop goes on.
PageReturns(answer) ==
  /\ pages.pc = "awaiting"
  /\ pages.page <= MaxPages
  /\ answer \in PageAnswers(pages.page)
  /\ pages' = WhileHasNextPage(PageAnswered(pages, answer))
  /\ UNCHANGED <<vars, searchVars, flow, http, batch, vision>>

\* The caller takes the list.
PagesClose ==
  /\ pages.pc = "done"
  /\ pages' = NoPages
  /\ UNCHANGED <<vars, searchVars, flow, http, batch, vision>>

PagesNext ==
  \/ \E kind \in {"characters", "locations"} : FetchAll(kind)
  \/ \E p \in 1..MaxPages : \E answer \in PageAnswers(p) : PageReturns(answer)
  \/ PagesClose

PagesSpec == Init /\ [][PagesNext]_allVars

\* The results of the answers 1..n of the log, one page after the other.
RECURSIVE Gathered(_, _)
Gathered(log, n) ==
  IF n = 0 THEN <<>>
  ELSE Gathered(log, n - 1) \o
       (IF log[n].answer.kind = "data" THEN ResultsOrNone(log[n].answer.entities)
        ELSE <<>>)

\* The requests are those of the pages 1, 2, 3, ... in this order, only the
\* last of them can be out, and the list holds the results of the answers
\* in page order.
PagesInOrder ==
  /\ \A j \in 1..Len(pages.log) :
       /\ pages.log[j].page = j
       /\ j < Len(pages.log) => pages.log[j].answer.kind # "pending"
  /\ pages.pc = "awaiting" <=>
       (pages.log # <<>> /\ pages.log[Len(pages.log)].answer.kind = "pending")
  /\ pages.all = Gathered(pages.log, Len(pages.log))

\* The answer is a failed request or a page whose info.next is null.
EndsPages(answer) ==
  \/ answer.kind = "error"
  \/ /\ answer.kind = "data"
     /\ answer.entities.present
     /\ answer.entities.info.present
     /\ answer.entities.info.next = JNull

\* The answer is a page without its page info.
LacksPageInfo(answer) ==
  answer.kind = "data" /\ ~(answer.entities.present /\ answer.entities.info.present)

\* C29 as claimed: the pages are requested in order, each once, the list
\* is the concatenation of the results, and the loop stops at the first
\* failed request, the first page whose info.next is null and also at a
\* page that lacks the page info, so that it ends for every upstream.
C29_StopsAlsoWithoutPageInfo ==
  /\ PagesInOrder
  /\ \A j \in 1..Len(pages.log) :
       (EndsPages(pages.log[j].answer) \/ LacksPageInfo(pages.log[j].answer))
         => (j = Len(pages.log) /\ pages.pc = "done")

\* C29, amended: the pages are requested in order, each once, and the list
\* is the concatenation of the results in page order; the loop stops at the
\* first failed request or the first page whose info.next is null and at no
\* other answer: after a page that lacks the page info the next page is
\* requested.
C29_StopsOnlyAtNullNextOrFailure ==
  /\ PagesInOrder
  /\ \A j \in 1..Len(pages.log) :
       LET answer == pages.log[j].answer
       IN /\ EndsPages(answer) => (j = Len(pages.log) /\ pages.pc = "done")
          /\ (answer.kind = "data" /\ ~EndsPages(answer)) =>
               (j < Len(pages.log) /\ pages.log[j + 1].page = j + 1)
  /\ pages.pc = "done" => EndsPages(pages.log[Len(pages.log)].answer)

\* C29 at work: page 1 came without its page info and page 2 was requested
\* all the same; page 2 named no next page and the loop returned the ids of
\* both pages.
C29_Witness ==
  /\ pages.pc = "done"
  /\ Len(pages.log) = 2
  /\ pages.log[1].answer = PageData(Entities(NoInfo, Results(PageIds(1))))
  /\ pages.log[2].answer = PageData(Entities(Info(JNull), Results(PageIds(2))))
  /\ pages.all = PageIds(1) \o PageIds(2)

(***************************************************************************)
(* analyzeCharacterImage: the vision providers are tried one after the     *)
(* other (visionService.js), or Groq alone is called (the version that     *)
(* closes characterCompatibilityService.js)                                *)
(***************************************************************************)
\* The text of the fallback description before and after the character name.
K_visualDetailsFor ==
  <<"V", "i", "s", "u", "a", "l", " ", "a", "p", "p", "e", "a", "r", "a",
    "n", "c", "e", " ", "d", "e", "t", "a", "i", "l", "s", " ", "f", "o",
    "r", " ">>

K_couldNotBeAnalysed ==
  <<" ", "f", "r", "o", "m", " ", "R", "i", "c", "k", " ", "a", "n", "d",
    " ", "M", "o", "r", "t", "y", ".", " ", "C", "h", "a", "r", "a", "c",
    "t", "e", "r", " ", "i", "m", "a", "g", "e", " ", "a", "v", "a", "i",
    "l", "a", "b", "l", "e", " ", "b", "u", "t", " ", "d", "e", "t", "a",
    "i", "l", "e", "d", " ", "v", "i", "s", "u", "a", "l", " ", "a", "n",
    "a", "l", "y", "s", "i", "s", " ", "c", "o", "u", "l", "d", " ", "n",
    "o", "t", " ", "b", "e", " ", "p", "e", "r", "f", "o", "r", "m", "e",
    "d", ".", " ", "T", "h", "e", " ", "c", "h", "a", "r", "a", "c", "t",
    "e", "r", " ", "a", "p", "p", "e", "a", "r", "s", " ", "i", "n", " ",
    "t", "h", "e", " ", "R", "i", "c", "k", " ", "a", "n", "d", " ", "M",
    "o", "r", "t", "y", " ", "a", "n", "i", "m", "a", "t", "e", "d", " ",
    "s", "e", "r", "i", "e", "s", ".">>

\* The description returned when every vision model failed.
FallbackAppearance(characterName) ==
  K_visualDetailsFor \o characterName \o K_couldNotBeAnalysed

\* The clients with OpenAI added whether its key is set or not.
ClientsBoth(openaiConfigured) == <<"Groq", "OpenAI">>

\* The clients of visionService.js: Groq, then OpenAI when its key is set.
Clients(openaiConfigured) ==
  <<"Groq">> \o (IF openaiConfigured THEN <<"OpenAI">> ELSE <<>>)

\* The names of the characters whose image is analysed.
VisionNames ==
  {<<"R", "i", "c", "k">>, <<"M", "o", "r", "t", "y">>, <<"S", "u", "m", "m", "e", "r">>}

\* What a vision model answers: a description, a response without choices,
\* or a failed call.
VisionReplies ==
  {ContentReply(<<"t", "a", "l", "l">>), ContentReply(<<" ", "t", "a", "l", "l", "\n">>),
   ContentReply(<<"b", "l", "u", "e">>), ContentReply(<<>>), MissingReply, ErrorReply}

\* client.chat.completions.create of the next client goes out.
TryClient(v) ==
  [v EXCEPT !.pc = "awaiting", !.calls = Append(@, v.clients[Len(v.calls) + 1])]

\* The loop over the clients: the next client is tried; after the last one
\* the fallback description is returned.
ForClients(v) ==
  IF Len(v.calls) < Len(v.clients) THEN TryClient(v)
  ELSE [v EXCEPT !.pc = "done", !.value = FallbackAppearance(v.name)]

\* analyzeCharacterImage(imageUrl, characterName) of visionService.js up to
\* its first await.
AnalyzeCharacterImage(characterName, openaiConfigured) ==
  /\ vision.pc = "idle"
  /\ vision' = ForClients([NoVision EXCEPT !.version = "providers",
                                           !.name = characterName,
                                           !.openai = openaiConfigured,
                                           !.clients = Clients(openaiConfigured)])
  /\ UNCHANGED <<vars, searchVars, flow, http, batch, pages>>

\* The call of the client in turn settles: the trimmed content is returned;
\* a failed call or a response without content is caught and the loop goes
\* on.
ClientReturns(r) ==
  /\ vision.pc = "awaiting"
  /\ vision.version = "providers"
  /\ LET heard == [vision EXCEPT !.replies = Append(@, r)]
     IN vision' = IF r.kind = "content"
                  THEN [heard EXCEPT !.pc = "done", !.value = Trim(r.text)]
                  ELSE ForClients(heard)
  /\ UNCHANGED <<vars, searchVars, flow, http, batch, pages>>

\* analyzeCharacterImage(imageUrl, characterName) of the Groq-only version up
\* to its await.
AnalyzeCharacterImageWithGroq(characterName, openaiConfigured) ==
  /\ vision.pc = "idle"
  /\ vision' = TryClient([NoVision EXCEPT !.version = "groq",
                                          !.name = characterName,
                                          !.openai = openaiConfigured,
                                          !.clients = <<"Groq">>])
  /\ UNCHANGED <<vars, searchVars, flow, http, batch, pages>>

\* The call of the Groq-only version settles: the trimmed content is
\* returned; the error of a failed call or of a response without content is
\* thrown again.
GroqReturns(r) ==
  /\ vision.pc = "awaiting"
  /\ vision.version = "groq"
  /\ LET heard == [vision EXCEPT !.replies = Append(@, r), !.pc = "done"]
     IN vision' = IF r.kind = "content" THEN [heard EXCEPT !.value = Trim(r.text)]
                  ELSE [heard EXCEPT !.raised = TRUE]
  /\ UNCHANGED <<vars, searchVars, flow, http, batch, pages>>

\* The caller takes the description or the error.
VisionClose ==
  /\ vision.pc = "done"
  /\ vision' = NoVision
  /\ UNCHANGED <<vars, searchVars, flow, http, batch, pages>>

VisionNext ==
  \/ \E characterName \in VisionNames, openaiConfigured \in BOOLEAN :
       AnalyzeCharacterImage(characterName, openaiConfigured)
  \/ \E characterName \in VisionNames, openaiConfigured \in BOOLEAN :
       AnalyzeCharacterImageWithGroq(characterName, openaiConfigured)
  \/ \E r \in VisionReplies : ClientReturns(r)
  \/ \E r \in VisionReplies : GroqReturns(r)
  \/ VisionClose

VisionSpec == Init /\ [][VisionNext]_allVars

\* The providers were called in the fixed order, each at most once, OpenAI
\* only with its key set, and every call but the last one failed.
CalledInOrder ==
  /\ Len(vision.calls) <= 2
  /\ \A j \in 1..Len(vision.calls) : vision.calls[j] = <<"Groq", "OpenAI">>[j]
  /\ Len(vision.calls) = 2 => vision.openai
  /\ Len(vision.replies) =
       (IF vision.pc = "awaiting" THEN Len(vision.calls) - 1 ELSE Len(vision.calls))
  /\ \A j \in 1..Len(vision.replies) :
       j < Len(vision.calls) => vision.replies[j].kind # "content"

\* The last call succeeded.
LastSucceeded ==
  vision.replies # <<>> /\ vision.replies[Len(vision.replies)].kind = "content"

\* The first successful description is returned, and it is the trimmed
\* content of the last call.
ReturnsFirstSuccess ==
  LastSucceeded =>
    /\ ~vision.raised
    /\ vision.value = Trim(vision.replies[Len(vision.replies)].text)

\* C30 as claimed: every analyzeCharacterImage tries Groq, then OpenAI when
\* its key is set, each at most once, returns the first successful
\* description without a later call, and when every provider failed
\* returns the fallback description and does not raise.
C30_FallbackWhenAllFail ==
  /\ CalledInOrder
  /\ vision.pc = "done" =>
       /\ ReturnsFirstSuccess
       /\ ~LastSucceeded =>
            /\ Len(vision.calls) = (IF vision.openai THEN 2 ELSE 1)
            /\ ~vision.raised
            /\ vision.value = FallbackAppearance(vision.name)

\* C30, amended: the analyzeCharacterImage of visionService.js behaves as
\* claimed; the Groq-only version calls Groq once, never OpenAI, returns
\* its trimmed description and raises when that one call fails.
C30_FallbackOrGroqOnlyRaises ==
  /\ CalledInOrder
  /\ vision.pc = "done" =>
       /\ ReturnsFirstSuccess
       /\ (vision.version = "providers" /\ ~LastSucceeded) =>
            /\ Len(vision.calls) = (IF vision.openai THEN 2 ELSE 1)
            /\ ~vision.raised
            /\ vision.value = FallbackAppearance(vision.name)
       /\ vision.version = "groq" =>
            /\ vision.calls = <<"Groq">>
            /\ vision.raised <=> ~LastSucceeded

\* C30 at work: Groq failed, OpenAI answered without content, and the
\* fallback description of Morty came back without an error.
C30_Witness ==
  /\ vision.pc = "done"
  /\ vision.version = "providers"
  /\ vision.calls = <<"Groq", "OpenAI">>
  /\ vision.replies = <<ErrorReply, MissingReply>>
  /\ ~vision.raised
  /\ vision.value = FallbackAppearance(<<"M", "o", "r", "t", "y">>)

====
